---- MODULE Spec2Model ----
(***************************************************************************)
(* A model of Simd::Detection<A> (src/src/Simd/SimdDetection.hpp): the     *)
(* cascade registry (Load), the pyramid builder (Init, InitWorkers,        *)
(* InitLevels), the per-call refresh and evaluation (Detect, FillLevels,   *)
(* Hid::Detect, AddObjects) and the clusterer (GroupObjects, Partition).   *)
(*                                                                         *)
(* Doubles are modelled by exact rationals <<num, den>> (den > 0); the     *)
(* scale factors used are dyadic, so the products are exact in binary      *)
(* floating point as well.  A double is converted to an integer coordinate *)
(* by Simd::Round (half away from zero), as Simd::Point and                *)
(* Simd::Rectangle do.                                                     *)
(***************************************************************************)
EXTENDS Integers, Sequences, FiniteSets, TLC

VARIABLES
    data,               \* std::vector<Data> _data
    dataCap,            \* capacity of _data's storage
    imageSize,          \* Size _imageSize
    needNormalization,  \* bool _needNormalization
    levels,             \* Levels _levels
    dangling,           \* Hid::data of the hids of _levels point into storage _data has left
    workers,            \* number of entries of WorkerPtrs _workers
    objects,            \* the Objects vector the caller gave the most recent Detect call
    last,               \* the most recent call and what it returned
    initOk,             \* what the most recent Init call returned ("none" before any)
    il,                 \* activation record of InitLevels (scale iteration, step by step)
    hd,                 \* activation record of Hid::Detect (strip dispatch, step by step)
    go,                 \* activation record of GroupObjects (clustering, step by step)
    wk,                 \* the threads, task queues and mutexes of the Workers of _workers
    nh                  \* the native handles obtained, who holds them and their releases

vars == <<data, dataCap, imageSize, needNormalization, levels, dangling, workers,
          objects, last, initOk, il, hd, go, wk, nh>>

-----------------------------------------------------------------------------
(* Bounds of the model. *)

MaxModels == 2
MaxWorkers == 3
MaxPool == 4
MaxFail == 2
HardwareConcurrency == 2

(* Program constants. *)

IntMax == 2147483647
UNDEFINED_OBJECT_TAG == -1

-----------------------------------------------------------------------------
(* Arithmetic on doubles (rationals) and the integer geometry of SimdLib.  *)

Min(a, b) == IF a <= b THEN a ELSE b
Max(a, b) == IF a >= b THEN a ELSE b
Abs(a) == IF a >= 0 THEN a ELSE -a

\* Simd::Round(n / d), d > 0: (int)(value + (value >= 0 ? 0.5 : -0.5))
RoundDiv(n, d) ==
    IF n >= 0 THEN (2 * n + d) \div (2 * d)
    ELSE -((2 * (-n) + d) \div (2 * d))

RatMul(a, b) == <<a[1] * b[1], a[2] * b[2]>>
RatLe(a, b) == a[1] * b[2] <= b[1] * a[2]
RatLt(a, b) == a[1] * b[2] < b[1] * a[2]

\* Size * double
SizeMul(s, scale) == <<RoundDiv(s[1] * scale[1], scale[2]), RoundDiv(s[2] * scale[1], scale[2])>>
\* Size / double
SizeDiv(s, scale) == <<RoundDiv(s[1] * scale[2], scale[1]), RoundDiv(s[2] * scale[2], scale[1])>>

Rect(l, t, r, b) == [left |-> l, top |-> t, right |-> r, bottom |-> b]
RectOfSize(s) == Rect(0, 0, s[1], s[2])
EmptyRect == Rect(0, 0, 0, 0)
Width(r) == r.right - r.left
Height(r) == r.bottom - r.top
\* Rectangle::Empty
Empty(r) == Width(r) * Height(r) = 0
\* Rectangle::Shifted
Shifted(r, p) == Rect(r.left + p[1], r.top + p[2], r.right + p[1], r.bottom + p[2])
\* Rectangle::Intersection
Intersection(a, b) ==
    LET l == Max(a.left, b.left)
        t == Max(a.top, b.top)
    IN  Rect(l, t, Max(l, Min(a.right, b.right)), Max(t, Min(a.bottom, b.bottom)))
\* Rectangle * double and Rectangle / double
RectMul(r, scale) ==
    Rect(RoundDiv(r.left * scale[1], scale[2]), RoundDiv(r.top * scale[1], scale[2]),
         RoundDiv(r.right * scale[1], scale[2]), RoundDiv(r.bottom * scale[1], scale[2]))
RectDiv(r, scale) == RectMul(r, <<scale[2], scale[1]>>)
\* Rectangle::operator|=
RectUnion(a, b) ==
    IF Empty(a) THEN b
    ELSE IF Empty(b) THEN a
    ELSE Rect(Min(a.left, b.left), Min(a.top, b.top), Max(a.right, b.right), Max(a.bottom, b.bottom))

Cells(r) == {<<row, col>> \in (r.top .. r.bottom - 1) \X (r.left .. r.right - 1) : TRUE}

-----------------------------------------------------------------------------
(* The cascade loader (external): what SimdDetectionLoadA and              *)
(* SimdDetectionInfo give for the cascade files of the model.              *)

Tags == {UNDEFINED_OBJECT_TAG, 7}

\* ::SimdDetectionLoadA: a handle, or NULL for an unsupported cascade
CanParse(path) == path # "tree.xml"

\* ::SimdDetectionInfo
Info(path) ==
    IF path = "haar.xml"
    THEN [size |-> <<2, 2>>, haar |-> TRUE, tilted |-> FALSE, int16 |-> FALSE]
    ELSE IF path = "tall.xml"
    THEN [size |-> <<2, 4>>, haar |-> FALSE, tilted |-> FALSE, int16 |-> FALSE]
    ELSE [size |-> <<3, 2>>, haar |-> FALSE, tilted |-> TRUE, int16 |-> TRUE]

-----------------------------------------------------------------------------
(* Detection::Load *)

\* growth of a full std::vector on push_back: the factor is the library's
\* (1.5 and 2 are in use), the new capacity holds the new element
Growths(cap) == {Max(cap + 1, (3 * cap) \div 2), Max(cap + 1, 2 * cap)}

\* Data data; data.handle = handle; data.tag = tag; SimdDetectionInfo(...);
\* k names the handle the parser returned
Entry(path, tag, k) ==
    [handle |-> <<"model", k>>, tag |-> tag, size |-> Info(path).size,
     haar |-> Info(path).haar, tilted |-> Info(path).tilted, int16 |-> Info(path).int16]

NewData(path, tag) == Entry(path, tag, Len(data) + 1)

\* a variant of Load that puts the new entry in front of the others
LoadResultInFront(path, tag, newCap) ==
    IF CanParse(path)
    THEN [data |-> <<NewData(path, tag)>> \o data,
          cap |-> IF Len(data) = dataCap THEN newCap ELSE dataCap,
          moved |-> Len(data) = dataCap,
          ret |-> TRUE]
    ELSE [data |-> data, cap |-> dataCap, moved |-> FALSE, ret |-> FALSE]

\* bool Load(const std::string & path, Tag tag): what it leaves in _data, whether
\* push_back moved the storage, and what it returns
LoadResult(path, tag, newCap) ==
    IF CanParse(path)
    THEN [data |-> Append(data, NewData(path, tag)),
          cap |-> IF Len(data) = dataCap THEN newCap ELSE dataCap,
          moved |-> Len(data) = dataCap,
          ret |-> TRUE]
    ELSE [data |-> data, cap |-> dataCap, moved |-> FALSE, ret |-> FALSE]

\* what a read through a Hid::data pointer that dangles may give instead of the
\* model's entry
Garbage ==
    [handle |-> <<"model", 0>>, tag |-> 0, size |-> <<1, 1>>,
     haar |-> FALSE, tilted |-> FALSE, int16 |-> FALSE]

AllTags == Tags \cup {Garbage.tag}

\* what a call did besides returning: whether Detect refreshed the level buffers,
\* how many tasks it gave the workers, the candidates AddObjects collected for
\* each tag, the rectangle (rect) it had for each level, whether a native bind
\* of Init failed and how many levels its scale iteration pushed
NoFx ==
    [refreshed |-> FALSE, tasks |-> 0, cands |-> [t \in AllTags |-> <<>>], rects |-> <<>>,
     bindFailed |-> FALSE, emitted |-> 0]

LoadStep(r, path, tag) ==
    /\ Len(r.data) <= MaxModels
    /\ data' = r.data
    /\ dataCap' = r.cap
    /\ dangling' = (dangling \/ (r.moved /\ \E i \in 1..Len(levels) : levels[i].hids # <<>>))
    /\ last' = [op |-> "Load", ret |-> r.ret, in |-> <<path, tag>>, fx |-> NoFx]
    /\ UNCHANGED <<imageSize, needNormalization, levels, workers, objects, initOk, il, hd, go, wk, nh>>

Load(path, tag, newCap) == LoadStep(LoadResult(path, tag, newCap), path, tag)

-----------------------------------------------------------------------------
(* Detection::InitWorkers *)

\* a variant of InitWorkers that releases the workers of _workers first
InitWorkersAnew(w, threadNumber) ==
    LET threadNumberMax == HardwareConcurrency
        n == IF threadNumber <= 0 \/ threadNumber > threadNumberMax
             THEN threadNumberMax ELSE threadNumber
    IN  IF n > 1 THEN n ELSE 0

\* the number of workers in _workers after InitWorkers(threadNumber)
InitWorkers(w, threadNumber) ==
    LET threadNumberMax == HardwareConcurrency
        n == IF threadNumber <= 0 \/ threadNumber > threadNumberMax
             THEN threadNumberMax ELSE threadNumber
    IN  IF n > 1 THEN w + n ELSE w

-----------------------------------------------------------------------------
(* Detection::InitLevels *)

NoBuffer == [img |-> 0, from |-> 0, norm |-> FALSE]

\* _levels.push_back(Level()) and the Recreate calls: buffers allocated, not filled
NewLevel(scale, imgSize) ==
    [scale |-> scale,
     throughColumn |-> RatLe(scale, <<2, 1>>),
     size |-> SizeDiv(imgSize, scale),
     hids |-> <<>>,
     needSqsum |-> FALSE, needTilted |-> FALSE,
     rect |-> EmptyRect,
     roi |-> {}, mask |-> {}, dst |-> {},
     src |-> NoBuffer, sum |-> NoBuffer, sqsum |-> NoBuffer, tilted |-> NoBuffer]

\* Size windowSize = _data[i].size * scale
WindowSize(d, scale) == SizeMul(d.size, scale)

\* windowSize.x <= sizeMax.x && ... && windowSize.y <= _imageSize.y
Fits(d, scale, P) ==
    LET w == WindowSize(d, scale) IN
    w[1] <= P.sizeMax[1] /\ w[2] <= P.sizeMax[2] /\ w[1] <= P.imageSize[1] /\ w[2] <= P.imageSize[2]

\* a variant of inserts[i] that does not test sizeMin
InsertsAboveAnyMin(d, scale, P) == Fits(d, scale, P)

\* inserts[i]
Inserts(d, scale, P) ==
    LET w == WindowSize(d, scale) IN
    Fits(d, scale, P) /\ w[1] >= P.sizeMin[1] /\ w[2] >= P.sizeMin[2]

\* a variant of the choice that takes the column-scan routines for the levels
\* that are not through-column
RoutineScanSwapped(d, throughColumn) ==
    IF d.haar
    THEN (IF throughColumn THEN "HaarDetect32fp" ELSE "HaarDetect32fi")
    ELSE IF d.int16
         THEN (IF throughColumn THEN "LbpDetect16ip" ELSE "LbpDetect16ii")
         ELSE (IF throughColumn THEN "LbpDetect32fp" ELSE "LbpDetect32fi")

\* the detection routine chosen for a bound model
Routine(d, throughColumn) ==
    IF d.haar
    THEN (IF throughColumn THEN "HaarDetect32fi" ELSE "HaarDetect32fp")
    ELSE IF d.int16
         THEN (IF throughColumn THEN "LbpDetect16ii" ELSE "LbpDetect16ip")
         ELSE (IF throughColumn THEN "LbpDetect32fi" ELSE "LbpDetect32fp")

\* the loop over _data that binds the models inserted at a level, from index i on.
\* b = [level, binds, needNorm, failed]; the native bind that is call number
\* P.failAt of this InitLevels returns NULL.
RECURSIVE BindFrom(_, _, _)
BindFrom(i, b, P) ==
    IF i > Len(P.data) THEN b
    ELSE IF ~Inserts(P.data[i], b.level.scale, P) THEN BindFrom(i + 1, b, P)
    ELSE IF b.binds + 1 = P.failAt THEN [b EXCEPT !.binds = b.binds + 1, !.failed = TRUE]
    ELSE LET d == P.data[i]
             hid == [handle |-> <<"hid", b.index, i>>, data |-> i,
                     detect |-> Routine(d, b.level.throughColumn)]
             lv == [b.level EXCEPT !.hids = Append(@, hid),
                                   !.needSqsum = @ \/ d.haar,
                                   !.needTilted = @ \/ d.tilted]
         IN  BindFrom(i + 1, [b EXCEPT !.level = lv, !.binds = b.binds + 1,
                                       !.needNorm = @ \/ d.haar], P)

\* level.rect and level.roi: the whole level without a ROI, else the resized and
\* binarized ROI mask and its bounding rectangle (primitive image operations)
WithRoi(level, roi) ==
    IF roi.format = "None"
    THEN [level EXCEPT !.rect = RectOfSize(level.size), !.roi = Cells(RectOfSize(level.size))]
    ELSE LET r == Intersection(RectDiv(roi.nonzero, level.scale), RectOfSize(level.size))
         IN  [level EXCEPT !.rect = r, !.roi = Cells(r)]

\* a variant of the result of InitLevels that does not look at _levels
LevelsResultAlways(lvls) == TRUE

\* return !_levels.empty()
LevelsResult(lvls) == lvls # <<>>

\* a variant of the scale update that leaves the scale as it is
SameScale(scale, scaleFactor) == scale

\* scale *= scaleFactor
NextScale(scale, scaleFactor) == RatMul(scale, scaleFactor)

\* one iteration of the do-while loop of InitLevels
ScaleStep(st, P) ==
    LET exit == \A i \in 1..Len(P.data) : ~Fits(P.data[i], st.scale, P)
        insert == \E i \in 1..Len(P.data) : Inserts(P.data[i], st.scale, P)
        b == BindFrom(1, [level |-> NewLevel(st.scale, P.imageSize), index |-> Len(st.levels) + 1,
                          binds |-> st.binds, needNorm |-> st.needNorm, failed |-> FALSE], P)
        seen == Append(st.visited, st.scale)
    IN  IF exit
        THEN [st EXCEPT !.pc = "done", !.ret = LevelsResult(st.levels), !.visited = seen]
        ELSE IF ~insert
        THEN [st EXCEPT !.scale = NextScale(@, P.scaleFactor), !.visited = seen]
        ELSE IF b.failed
        THEN [st EXCEPT !.pc = "done", !.ret = FALSE, !.levels = Append(@, b.level),
                        !.binds = b.binds, !.needNorm = b.needNorm, !.visited = seen,
                        !.failed = TRUE, !.emitted = @ + 1]
        ELSE [st EXCEPT !.levels = Append(@, WithRoi(b.level, P.roi)),
                        !.binds = b.binds, !.needNorm = b.needNorm, !.emitted = @ + 1,
                        !.scale = NextScale(@, P.scaleFactor), !.visited = seen]

\* _needNormalization = false; _levels.clear(); double scale = 1.0
StartLevels ==
    [pc |-> "loop", ret |-> FALSE, scale |-> <<1, 1>>, levels |-> <<>>, needNorm |-> FALSE,
     binds |-> 0, visited |-> <<>>, failed |-> FALSE, emitted |-> 0]

RECURSIVE RunLevels(_, _)
RunLevels(st, P) == IF st.pc = "done" THEN st ELSE RunLevels(ScaleStep(st, P), P)

\* bool InitLevels(scaleFactor, sizeMin, sizeMax, roi)
InitLevels(P) == RunLevels(StartLevels, P)

-----------------------------------------------------------------------------
(* Detection::Similar, Detection::Partition, Detection::GroupObjects.      *)
(* An object is [rect, weight, tag]; sizeDifferenceMax is a rational.      *)

Object(r, w, t) == [rect |-> r, weight |-> w, tag |-> t]

\* a variant of Similar that takes the width and the height of the first
\* rectangle instead of the smaller ones
SimilarByFirst(o1, o2, sdm) ==
    LET r1 == o1.rect
        r2 == o2.rect
        m == Width(r1) + Height(r1)
        Le(x) == 2 * sdm[2] * x <= sdm[1] * m
    IN  Le(Abs(r1.left - r2.left)) /\ Le(Abs(r1.top - r2.top)) /\
        Le(Abs(r1.right - r2.right)) /\ Le(Abs(r1.bottom - r2.bottom))

\* Similar::operator(): delta = sizeDifferenceMax*(min widths + min heights)*0.5
Similar(o1, o2, sdm) ==
    LET r1 == o1.rect
        r2 == o2.rect
        m == Min(Width(r1), Width(r2)) + Min(Height(r1), Height(r2))
        Le(x) == 2 * sdm[2] * x <= sdm[1] * m
    IN  Le(Abs(r1.left - r2.left)) /\ Le(Abs(r1.top - r2.top)) /\
        Le(Abs(r1.right - r2.right)) /\ Le(Abs(r1.bottom - r2.bottom))

\* a variant of the root search that does not follow the parent links
FindRootAtNode(nodes, k) == k

\* while (nodes[root][PARENT] >= 0) root = nodes[root][PARENT]
RECURSIVE FindRoot(_, _)
FindRoot(nodes, k) == IF nodes[k].parent >= 0 THEN FindRoot(nodes, nodes[k].parent) ELSE k

\* while ((parent = nodes[k][PARENT]) >= 0) { nodes[k][PARENT] = root; k = parent; }
RECURSIVE Compress(_, _, _)
Compress(nodes, k, root) ==
    LET parent == nodes[k].parent IN
    IF parent >= 0 THEN Compress([nodes EXCEPT ![k].parent = root], parent, root) ELSE nodes

\* the body of the loop over j, for one j; s = [nodes, root, j]
UnionStep(s, i, vec, sdm) ==
    IF i = s.j \/ ~Similar(vec[i + 1], vec[s.j + 1], sdm) THEN [s EXCEPT !.j = s.j + 1]
    ELSE LET root2 == FindRoot(s.nodes, s.j) IN
         IF root2 = s.root THEN [s EXCEPT !.j = s.j + 1]
         ELSE LET rank == s.nodes[s.root].rank
                  rank2 == s.nodes[root2].rank
                  linked == IF rank > rank2
                            THEN [s.nodes EXCEPT ![root2].parent = s.root]
                            ELSE [s.nodes EXCEPT ![s.root].parent = root2,
                                                 ![root2].rank = @ + (IF rank = rank2 THEN 1 ELSE 0)]
                  root == IF rank > rank2 THEN s.root ELSE root2
              IN  [nodes |-> Compress(Compress(linked, s.j, root), i, root), root |-> root,
                   j |-> s.j + 1]

\* for (j = 0; j < N; j++)
RECURSIVE UnionInner(_, _, _, _)
UnionInner(s, i, vec, sdm) ==
    IF s.j >= Len(vec) THEN s ELSE UnionInner(UnionStep(s, i, vec, sdm), i, vec, sdm)

\* for (i = 0; i < N; i++); o = [nodes, i]
RECURSIVE UnionOuter(_, _, _)
UnionOuter(o, vec, sdm) ==
    IF o.i >= Len(vec) THEN o.nodes
    ELSE UnionOuter([nodes |-> UnionInner([nodes |-> o.nodes, root |-> FindRoot(o.nodes, o.i), j |-> 0],
                                          o.i, vec, sdm).nodes,
                     i |-> o.i + 1], vec, sdm)

\* the labelling loop; l = [nodes, labels, nclasses, i]; ~x is -x - 1
RECURSIVE LabelFrom(_, _)
LabelFrom(l, N) ==
    IF l.i >= N THEN l
    ELSE LET root == FindRoot(l.nodes, l.i)
             fresh == l.nodes[root].rank >= 0
             nodes == IF fresh THEN [l.nodes EXCEPT ![root].rank = -l.nclasses - 1] ELSE l.nodes
         IN  LabelFrom([nodes |-> nodes,
                        labels |-> Append(l.labels, -nodes[root].rank - 1),
                        nclasses |-> IF fresh THEN l.nclasses + 1 ELSE l.nclasses,
                        i |-> l.i + 1], N)

\* int Partition(vec, labels, sizeDifferenceMax): [labels, nclasses]
Partition(vec, sdm) ==
    LET N == Len(vec)
        start == [k \in 0..N - 1 |-> [parent |-> -1, rank |-> 0]]
    IN  LabelFrom([nodes |-> UnionOuter([nodes |-> start, i |-> 0], vec, sdm),
                   labels |-> <<>>, nclasses |-> 0, i |-> 0], N)

\* buffer[cls].rect += src[i].rect; buffer[cls].weight++; buffer[cls].tag = src[i].tag;
\* a = [buffer, i]
RECURSIVE Accumulate(_, _, _)
Accumulate(a, src, labels) ==
    IF a.i > Len(labels) THEN a.buffer
    ELSE LET cls == labels[a.i] + 1
             b == a.buffer[cls]
             r == src[a.i].rect
         IN  Accumulate([buffer |-> [a.buffer EXCEPT ![cls] =
                            Object(Rect(b.rect.left + r.left, b.rect.top + r.top,
                                        b.rect.right + r.right, b.rect.bottom + r.bottom),
                                   b.weight + 1, src[a.i].tag)],
                         i |-> a.i + 1],
                        src, labels)

\* a variant of the averaging loop that cuts the quotient off instead of rounding it
AveragedTruncated(buffer) ==
    [i \in 1..Len(buffer) |->
        IF buffer[i].weight = 0 THEN buffer[i]
        ELSE [buffer[i] EXCEPT !.rect = Rect(@.left \div buffer[i].weight, @.top \div buffer[i].weight,
                                             @.right \div buffer[i].weight, @.bottom \div buffer[i].weight)]]

\* buffer[i].rect = buffer[i].rect / double(buffer[i].weight)
Averaged(buffer) ==
    [i \in 1..Len(buffer) |->
        IF buffer[i].weight = 0 THEN buffer[i]
        ELSE [buffer[i] EXCEPT !.rect = RectDiv(@, <<buffer[i].weight, 1>>)]]

\* a variant of the test that lets only a heavier cluster end the loop
SuppressesHeavierOnly(buffer, i, j, groupSizeMin, sdm) ==
    LET r1 == buffer[i].rect
        n1 == buffer[i].weight
        r2 == buffer[j].rect
        n2 == buffer[j].weight
        dx == RoundDiv(Width(r2) * sdm[1], sdm[2])
        dy == RoundDiv(Height(r2) * sdm[1], sdm[2])
    IN  /\ j # i
        /\ n2 >= groupSizeMin
        /\ n2 > Max(3, n1)
        /\ r1.left >= r2.left - dx /\ r1.top >= r2.top - dy
        /\ r1.right <= r2.right + dx /\ r1.bottom <= r2.bottom + dy

\* the test of the loop over j that ends it by break
Suppresses(buffer, i, j, groupSizeMin, sdm) ==
    LET r1 == buffer[i].rect
        n1 == buffer[i].weight
        r2 == buffer[j].rect
        n2 == buffer[j].weight
        dx == RoundDiv(Width(r2) * sdm[1], sdm[2])
        dy == RoundDiv(Height(r2) * sdm[1], sdm[2])
    IN  /\ j # i
        /\ n2 >= groupSizeMin
        /\ (n2 > Max(3, n1) \/ n1 < 3)
        /\ r1.left >= r2.left - dx /\ r1.top >= r2.top - dy
        /\ r1.right <= r2.right + dx /\ r1.bottom <= r2.bottom + dy

\* whether the final loop pushes buffer[i]
Emitted(buffer, i, groupSizeMin, sdm) ==
    /\ buffer[i].weight >= groupSizeMin
    /\ ~\E j \in 1..Len(buffer) : Suppresses(buffer, i, j, groupSizeMin, sdm)

\* a variant of the entry test that does not return for groupSizeMin 0
GroupSkipsBelowOnly(src, groupSizeMin) == Len(src) < groupSizeMin

\* a variant of the entry test that also returns for exactly groupSizeMin candidates
GroupSkipsUpTo(src, groupSizeMin) == groupSizeMin = 0 \/ Len(src) <= groupSizeMin

\* if (groupSizeMin == 0 || src.size() < groupSizeMin) return
GroupSkips(src, groupSizeMin) == groupSizeMin = 0 \/ Len(src) < groupSizeMin

\* buffer.resize(nclasses)
EmptyBuffer(nclasses) == [k \in 1..nclasses |-> Object(EmptyRect, 0, UNDEFINED_OBJECT_TAG)]

\* the clusters the final loop pushes, in the order of the buffer
Survivors(buffer, groupSizeMin, sdm) ==
    LET Keep(i) == Emitted(buffer, i, groupSizeMin, sdm)
        kept == SelectSeq([i \in 1..Len(buffer) |-> i], Keep)
    IN  [k \in 1..Len(kept) |-> buffer[kept[k]]]

\* void GroupObjects(dst, src, groupSizeMin, sizeDifferenceMax): dst afterwards
GroupObjects(dst, src, groupSizeMin, sdm) ==
    IF GroupSkips(src, groupSizeMin) THEN dst
    ELSE LET p == Partition(src, sdm)
             buffer == Averaged(Accumulate([buffer |-> EmptyBuffer(p.nclasses), i |-> 1], src, p.labels))
         IN  dst \o Survivors(buffer, groupSizeMin, sdm)

-----------------------------------------------------------------------------
(* Detection::FillLevels, Detection::EstimateIntegral.  The content of an  *)
(* image buffer is named by the input image it derives from (img), the     *)
(* buffer it was resized from (from: 0 the input image, k the source of    *)
(* level k) and whether its histogram was normalized (norm).               *)

\* Simd::Integral(level.src, level.sum [, level.sqsum [, level.tilted]])
EstimateIntegral(level) ==
    IF level.needSqsum
    THEN IF level.needTilted
         THEN [level EXCEPT !.sum = level.src, !.sqsum = level.src, !.tilted = level.src]
         ELSE [level EXCEPT !.sum = level.src, !.sqsum = level.src]
    ELSE [level EXCEPT !.sum = level.src]

\* the source FillLevels gives level i (i >= 2), first the first level's
ResizedSource(first, i) == [img |-> first.src.img, from |-> 1, norm |-> first.src.norm]

\* void FillLevels(View src): _levels afterwards
FillLevels(lvls, src, needNorm) ==
    LET first == EstimateIntegral([lvls[1] EXCEPT !.src = [img |-> src.id, from |-> 0, norm |-> needNorm]])
    IN  [i \in 1..Len(lvls) |->
            IF i = 1 THEN first
            ELSE EstimateIntegral([lvls[i] EXCEPT !.src = ResizedSource(first, i)])]

-----------------------------------------------------------------------------
(* Detection::FillMotionMask *)

\* a variant of the loop that assigns each scaled region instead of uniting it
LastOfRects(rects, i, scale) == IF i = 0 THEN EmptyRect ELSE RectDiv(rects[i], scale)

\* rect = Rect(); for (i ...) rect |= rects[i] / level.scale
RECURSIVE UnionOfRects(_, _, _)
UnionOfRects(rects, i, scale) ==
    IF i = 0 THEN EmptyRect ELSE RectUnion(UnionOfRects(rects, i - 1, scale), RectDiv(rects[i], scale))

\* level.mask and rect after FillMotionMask(rects, level, rect)
FillMotionMask(rects, level) ==
    LET bounds == RectOfSize(level.size)
        filled == UNION {Cells(Intersection(RectDiv(rects[i], level.scale), bounds)) : i \in 1..Len(rects)}
    IN  [mask |-> filled \cap level.roi,
         rect |-> Intersection(UnionOfRects(rects, Len(rects), level.scale), level.rect)]

-----------------------------------------------------------------------------
(* Hid::Detect and the native detection routines *)

\* the scan step of a detection routine: the ...i routines visit every second
\* row and column from the given top and left, the ...p routines every one
RoutineStride(detect) ==
    IF detect \in {"HaarDetect32fi", "LbpDetect16ii", "LbpDetect32fi"} THEN 2 ELSE 1

\* the verdict of the cascade the evaluator was bound to, at one position of the
\* level: a function of the integral buffers the evaluator reads
NativeHit(level, hid, row, col) ==
    LET c == data[hid.data]
        key == level.sum.img + level.sum.from + (IF level.sum.norm THEN 1 ELSE 0)
               + (IF c.haar THEN level.sqsum.img ELSE 0)
               + (IF c.tilted THEN level.tilted.img ELSE 0) + hid.data
    IN  level.sum.img # 0 /\ (row + (col \div 2) + key) % 3 # 0

\* h->detect(h->handle, m.data, m.stride, left, top, right, bottom, d.data, d.stride):
\* the cells the call sets; off is the place of the view m in the mask
DetectCall(level, hid, mask, off, left, top, right, bottom) ==
    LET step == RoutineStride(hid.detect) IN
    {p \in (top .. bottom - 1) \X (left .. right - 1) :
        /\ (p[1] - top) % step = 0
        /\ (p[2] - left) % step = 0
        /\ <<p[1] + off[2], p[2] + off[1]>> \in mask
        /\ NativeHit(level, hid, p[1], p[2])}

\* Rect r = rect.Shifted(-size / 2).Intersection(Rect(s)), s = dst.Size() - size
ValidRect(rect, levelSize, size) ==
    Intersection(Shifted(rect, <<RoundDiv(-size[1], 2), RoundDiv(-size[2], 2)>>),
                 RectOfSize(<<levelSize[1] - size[1], levelSize[2] - size[2]>>))

\* a variant of the strip height that is made even by taking 1 off
StripStepEvenBelow(r, n, throughColumn) ==
    LET step == (r.bottom - r.top) \div n + 1 IN
    IF throughColumn THEN step - (step % 2) ELSE step

\* a variant of the strip height that is the quotient, without the 1 added
StripStepQuotient(r, n, throughColumn) ==
    LET step == (r.bottom - r.top) \div n IN
    IF throughColumn THEN step + (step % 2) ELSE step

\* a variant of the strip height that is not made even
StripStepUnsnapped(r, n, throughColumn) == (r.bottom - r.top) \div n + 1

\* size_t step = (r.bottom - r.top) / workers.size() + 1; if (throughColumn) step += step & 1
StripStep(r, n, throughColumn) ==
    LET step == (r.bottom - r.top) \div n + 1 IN
    IF throughColumn THEN step + (step % 2) ELSE step

\* the rows of the task given to worker i (from 0)
StripTop(r, i, step) == r.top + i * step
StripBottom(r, i, step) == Min(StripTop(r, i, step) + step, r.bottom)

\* void Hid::Detect(mask, rect, dst, workers, throughColumn): dst afterwards and the
\* number of tasks added.  size is data->size as the evaluator reads it.
HidDetect(level, hid, mask, rect, nWorkers, size) ==
    LET r == ValidRect(rect, level.size, size)
        off == <<size[1] \div 2, size[2] \div 2>>
        step == StripStep(r, nWorkers, level.throughColumn)
    IN  IF nWorkers = 0
        THEN [dst |-> DetectCall(level, hid, mask, off, r.left, r.top, r.right, r.bottom), tasks |-> 0]
        ELSE [dst |-> UNION {DetectCall(level, hid, mask, off, r.left, StripTop(r, i, step),
                                        r.right, StripBottom(r, i, step)) : i \in 0..nWorkers - 1},
              tasks |-> nWorkers]

-----------------------------------------------------------------------------
(* Detection::AddObjects *)

\* the positions AddObjects visits, in its order: row by row from r.top,
\* column by column from r.left, step apart
Visited(r, step) ==
    LET nRows == IF r.bottom > r.top THEN (r.bottom - r.top + step - 1) \div step ELSE 0
        nCols == IF r.right > r.left THEN (r.right - r.left + step - 1) \div step ELSE 0
    IN  [k \in 1..nRows * nCols |->
            <<r.top + ((k - 1) \div nCols) * step, r.left + ((k - 1) % nCols) * step>>]

\* void AddObjects(objects, dst, rect, size, scale, step, tag): objects afterwards
AddObjects(objs, dst, levelSize, rect, size, scale, step, tag) ==
    LET r == ValidRect(rect, levelSize, size)
        IsHit(p) == p \in dst
        hits == SelectSeq(Visited(r, step), IsHit)
    IN  objs \o [k \in 1..Len(hits) |->
                    Object(RectMul(Rect(hits[k][2], hits[k][1], hits[k][2] + size[1], hits[k][1] + size[2]),
                                   scale), 1, tag)]

-----------------------------------------------------------------------------
(* Detection::Detect *)

\* the loop over level.hids; s = [level, cands, tasks], mem is _data as the
\* evaluators read it
RECURSIVE DetectHids(_, _, _, _, _, _)
DetectHids(j, s, mask, rect, nWorkers, mem) ==
    IF j > Len(s.level.hids) THEN s
    ELSE LET hid == s.level.hids[j]
             d == mem[hid.data]
             h == HidDetect(s.level, hid, mask, rect, nWorkers, d.size)
             lv == [s.level EXCEPT !.dst = h.dst]
             objs == AddObjects(s.cands[d.tag], lv.dst, lv.size, rect, d.size, lv.scale,
                                IF lv.throughColumn THEN 2 ELSE 1, d.tag)
         IN  DetectHids(j + 1, [level |-> lv, cands |-> [s.cands EXCEPT ![d.tag] = objs],
                                tasks |-> s.tasks + h.tasks], mask, rect, nWorkers, mem)

\* the loop over _levels; s = [levels, cands, tasks, rects]
RECURSIVE DetectLevels(_, _, _, _, _, _)
DetectLevels(i, s, motionMask, motionRegions, nWorkers, mem) ==
    IF i > Len(s.levels) THEN s
    ELSE LET fm == FillMotionMask(motionRegions, s.levels[i])
             level == IF motionMask THEN [s.levels[i] EXCEPT !.mask = fm.mask] ELSE s.levels[i]
             mask == IF motionMask THEN level.mask ELSE level.roi
             rect == IF motionMask THEN fm.rect ELSE level.rect
             h == IF Empty(rect)
                  THEN [level |-> level, cands |-> s.cands, tasks |-> s.tasks]
                  ELSE DetectHids(1, [level |-> level, cands |-> s.cands, tasks |-> s.tasks],
                                  mask, rect, nWorkers, mem)
         IN  DetectLevels(i + 1, [levels |-> [s.levels EXCEPT ![i] = h.level],
                                  cands |-> h.cands, tasks |-> h.tasks,
                                  rects |-> Append(s.rects, rect)],
                          motionMask, motionRegions, nWorkers, mem)

\* the tags of a set in the order std::map iterates them
RECURSIVE Ascending(_)
Ascending(S) ==
    IF S = {} THEN <<>>
    ELSE LET m == CHOOSE x \in S : \A y \in S : x <= y IN <<m>> \o Ascending(S \ {m})

\* objects.clear(); for each tag: GroupObjects(objects, it->second, ...)
RECURSIVE GroupAll(_, _, _, _, _)
GroupAll(objs, cands, order, groupSizeMin, sdm) ==
    IF order = <<>> THEN objs
    ELSE GroupAll(GroupObjects(objs, cands[Head(order)], groupSizeMin, sdm),
                  cands, Tail(order), groupSizeMin, sdm)

\* a variant of the entry test of Detect that does not compare the sizes
RejectsEmptyOnly(src) == levels = <<>>

\* if (_levels.empty() || src.Size() != _imageSize) return false
Rejects(src) == levels = <<>> \/ src.size # imageSize

\* bool Detect(src, objects, groupSizeMin, sizeDifferenceMax, motionMask, motionRegions)
DetectResult(src, objs, groupSizeMin, sdm, motionMask, motionRegions, mem) ==
    IF Rejects(src)
    THEN [ret |-> FALSE, levels |-> levels, objects |-> objs, fx |-> NoFx]
    ELSE LET filled == FillLevels(levels, src, needNormalization)
             d == DetectLevels(1, [levels |-> filled, cands |-> [t \in AllTags |-> <<>>], tasks |-> 0,
                                   rects |-> <<>>],
                               motionMask, motionRegions, workers, mem)
         IN  [ret |-> TRUE, levels |-> d.levels,
              objects |-> GroupAll(<<>>, d.cands, Ascending(AllTags), groupSizeMin, sdm),
              fx |-> [NoFx EXCEPT !.refreshed = TRUE, !.tasks = d.tasks, !.cands = d.cands,
                                  !.rects = d.rects]]

-----------------------------------------------------------------------------
(* The calls a client makes and the arguments the model draws them from.   *)

NoView == [format |-> "None", nonzero |-> EmptyRect]

LoadArgs == {<<"haar.xml", 7>>, <<"lbp.xml", UNDEFINED_OBJECT_TAG>>, <<"tree.xml", 7>>}

InitArg(size, scaleFactor, sizeMin, sizeMax, roi, threadNumber) ==
    [size |-> size, scaleFactor |-> scaleFactor, sizeMin |-> sizeMin, sizeMax |-> sizeMax,
     roi |-> roi, threadNumber |-> threadNumber]

InitArgs ==
    {InitArg(<<6, 5>>, <<3, 2>>, <<0, 0>>, <<IntMax, IntMax>>, NoView, -1),
     InitArg(<<4, 4>>, <<2, 1>>, <<0, 0>>, <<IntMax, IntMax>>,
             [format |-> "Gray8", nonzero |-> Rect(0, 0, 3, 4)], 1),
     InitArg(<<6, 5>>, <<2, 1>>, <<5, 5>>, <<3, 3>>, NoView, 1)}

Images == {[id |-> 1, size |-> <<4, 4>>], [id |-> 2, size |-> <<6, 5>>], [id |-> 3, size |-> <<6, 5>>]}

GroupArgs == {[groupSizeMin |-> 1, sizeDifferenceMax |-> <<1, 5>>],
              [groupSizeMin |-> 2, sizeDifferenceMax |-> <<1, 1>>]}

\* what the caller's vector holds when Detect is called
Leftover == <<Object(Rect(0, 0, 1, 1), 9, UNDEFINED_OBJECT_TAG)>>

MotionArgs ==
    {[motionMask |-> FALSE, motionRegions |-> <<>>],
     [motionMask |-> TRUE, motionRegions |-> <<>>],
     [motionMask |-> TRUE, motionRegions |-> <<Rect(0, 0, 2, 3), Rect(2, 0, 4, 3)>>]}

IdleLevels == [pc |-> "idle"]
IdleHid == [pc |-> "idle"]
IdleGroup == [pc |-> "idle"]
IdlePool == [pc |-> "idle"]

\* Detection(): nothing loaded, no level, no worker
Start ==
    /\ data = <<>>
    /\ dataCap = 0
    /\ imageSize = <<0, 0>>
    /\ needNormalization \in BOOLEAN
    /\ levels = <<>>
    /\ dangling = FALSE
    /\ workers = 0
    /\ objects = <<>>
    /\ last = [op |-> "new", ret |-> TRUE, in |-> <<>>, fx |-> NoFx]
    /\ initOk = "none"
    /\ il = IdleLevels
    /\ hd = IdleHid
    /\ go = IdleGroup
    /\ wk = IdlePool
    /\ nh = [pc |-> "unused"]

\* the arguments of InitLevels and what it reads of the detector
LevelArgs(a, failAt) ==
    [data |-> data, imageSize |-> a.size, scaleFactor |-> a.scaleFactor,
     sizeMin |-> a.sizeMin, sizeMax |-> a.sizeMax, roi |-> a.roi, failAt |-> failAt]

\* a variant of Init that tests _data after _imageSize and the workers are set
InitRejectedLate(a) ==
    /\ data = <<>>
    /\ InitWorkers(workers, a.threadNumber) <= MaxPool
    /\ imageSize' = a.size
    /\ workers' = InitWorkers(workers, a.threadNumber)
    /\ last' = [op |-> "Init", ret |-> FALSE, in |-> a, fx |-> NoFx]
    /\ initOk' = "false"
    /\ UNCHANGED <<data, dataCap, needNormalization, levels, dangling, objects, il, hd, go, wk, nh>>

\* if (_data.empty()) return false
InitRejected(a) ==
    /\ data = <<>>
    /\ last' = [op |-> "Init", ret |-> FALSE, in |-> a, fx |-> NoFx]
    /\ initOk' = "false"
    /\ UNCHANGED <<data, dataCap, imageSize, needNormalization, levels, dangling,
                   workers, objects, il, hd, go, wk, nh>>

\* _imageSize = imageSize; InitWorkers(threadNumber); return InitLevels(...)
InitStep(r, a) ==
    /\ data # <<>>
    /\ InitWorkers(workers, a.threadNumber) <= MaxPool
    /\ imageSize' = a.size
    /\ workers' = InitWorkers(workers, a.threadNumber)
    /\ needNormalization' = r.needNorm
    /\ levels' = r.levels
    /\ dangling' = FALSE
    /\ last' = [op |-> "Init", ret |-> r.ret, in |-> a,
                 fx |-> [NoFx EXCEPT !.bindFailed = r.failed, !.emitted = r.emitted]]
    /\ initOk' = IF r.ret THEN "true" ELSE "false"
    /\ UNCHANGED <<data, dataCap, objects, il, hd, go, wk, nh>>

\* bool Init(imageSize, scaleFactor, sizeMin, sizeMax, roi, threadNumber)
Init(a, failAt) ==
    \/ InitRejected(a)
    \/ InitStep(InitLevels(LevelArgs(a, failAt)), a)

\* _data as the evaluators of _levels read it through Hid::data
Memory(intact) == IF intact THEN data ELSE [i \in 1..Len(data) |-> Garbage]

DetectStep(r, in) ==
    /\ levels' = r.levels
    /\ objects' = r.objects
    /\ last' = [op |-> "Detect", ret |-> r.ret, in |-> in, fx |-> r.fx]
    /\ UNCHANGED <<data, dataCap, imageSize, needNormalization, dangling, workers, initOk, il, hd, go, wk, nh>>

\* bool Detect(src, objects, groupSizeMin, sizeDifferenceMax, motionMask, motionRegions);
\* intact: the reads through Hid::data give the entries the evaluators were bound to
Detect(src, g, motion, intact) ==
    /\ intact \/ dangling
    /\ DetectStep(DetectResult(src, Leftover, g.groupSizeMin, g.sizeDifferenceMax,
                               motion.motionMask, motion.motionRegions, Memory(intact)),
                  [src |-> src, g |-> g, motion |-> motion])

Next ==
    \/ \E a \in LoadArgs, newCap \in Growths(dataCap) : Load(a[1], a[2], newCap)
    \/ \E a \in InitArgs, failAt \in 0..MaxFail : Init(a, failAt)
    \/ \E src \in Images, g \in GroupArgs, motion \in MotionArgs, intact \in BOOLEAN :
            Detect(src, g, motion, intact)

Spec == Start /\ [][Next]_vars

-----------------------------------------------------------------------------
(* Properties of the calls (Spec). *)

\* C1: a Detect call made while the detector holds no level, or with an image
\* whose size is not the size given to the most recent Init, returns false,
\* leaves the caller's vector as it was, refreshes no level buffer and gives the
\* workers no task.
DetectRejectsUnprepared ==
    [][(last'.op = "Detect" /\ (levels = <<>> \/ last'.in.src.size # imageSize))
          => (/\ ~last'.ret
              /\ objects' = Leftover
              /\ levels' = levels
              /\ ~last'.fx.refreshed
              /\ last'.fx.tasks = 0)]_vars

\* a Detect call refused for the size of its image alone
DetectRejectedForSize ==
    /\ last.op = "Detect"
    /\ ~last.ret
    /\ levels # <<>>
    /\ last.in.src.size # imageSize
    /\ objects = Leftover

\* C2: after an Init call that returned false, every Detect call returns false
\* (whatever the image) until a later Init call returns true.
DetectFalseAfterFailedInit ==
    (last.op = "Detect" /\ initOk = "false") => ~last.ret

\* C4: a successful Detect call returns what a repeat of the call (same image,
\* same parameters) on the same initialized detector returns, and what it returns
\* holds nothing of what the caller's vector held before.
DetectRepeatable ==
    (last.op = "Detect" /\ last.ret) =>
        /\ objects = DetectResult(last.in.src, Leftover, last.in.g.groupSizeMin,
                                  last.in.g.sizeDifferenceMax, last.in.motion.motionMask,
                                  last.in.motion.motionRegions, data).objects
        /\ \A k \in 1..Len(objects) : objects[k] # Leftover[1]

\* C7: Init returns true exactly when it ends with at least one level and no
\* native bind failed; when its scale iteration pushed no level it returns false
\* and the detector holds no level, whatever it held before.
InitReturnsLevels ==
    last.op = "Init" =>
        /\ last.ret <=> (levels # <<>> /\ ~last.fx.bindFailed)
        /\ last.fx.emitted = 0 => (~last.ret /\ levels = <<>>)

\* an Init on a loaded registry whose iteration pushed no level, after an Init
\* that had built levels and workers
InitDiscardedLevels ==
    /\ last.op = "Init"
    /\ data # <<>>
    /\ last.fx.emitted = 0
    /\ ~last.ret
    /\ levels = <<>>
    /\ workers > 0

\* C9: Init on a detector with no loaded model returns false at once: no worker
\* is created, no level is built and the stored image size stays as it was.
InitWithoutModel ==
    [][(last'.op = "Init" /\ data = <<>>)
          => (/\ ~last'.ret
              /\ workers' = workers
              /\ levels' = levels
              /\ imageSize' = imageSize)]_vars

\* an Init refused for the empty registry, called with a thread number that
\* would have created workers and an image size other than the stored one
InitRefusedEmpty ==
    /\ last.op = "Init"
    /\ data = <<>>
    /\ ~last.ret
    /\ last.in.threadNumber = -1
    /\ last.in.size # imageSize
    /\ workers = 0

\* C10: Load returns true exactly when the parser yields a handle; then _data
\* grows by one entry with the caller's tag and the parsed size and flags, put
\* after the entries it had, which stay as they were; else _data is unchanged.
LoadAppendsOne ==
    [][last'.op = "Load"
          => (/\ last'.ret <=> CanParse(last'.in[1])
              /\ last'.ret =>
                    /\ Len(data') = Len(data) + 1
                    /\ \A i \in 1..Len(data) : data'[i] = data[i]
                    /\ data'[Len(data')].tag = last'.in[2]
                    /\ data'[Len(data')].size = Info(last'.in[1]).size
                    /\ data'[Len(data')].haar = Info(last'.in[1]).haar
                    /\ data'[Len(data')].tilted = Info(last'.in[1]).tilted
                    /\ data'[Len(data')].int16 = Info(last'.in[1]).int16
              /\ ~last'.ret => data' = data)]_vars

\* a second model loaded after a first one of another kind
LoadedSecondModel ==
    /\ last.op = "Load"
    /\ last.ret
    /\ Len(data) = 2
    /\ data[1].haar # data[2].haar
    /\ data[2].tag = last.in[2]

\* the pool size a thread count asks for: n workers for n > 1, none otherwise,
\* n the thread count when it is in 1..hardware concurrency, else the latter
PoolSize(threadCount) ==
    LET n == IF 1 <= threadCount /\ threadCount <= HardwareConcurrency
             THEN threadCount ELSE HardwareConcurrency
    IN  IF n > 1 THEN n ELSE 0

\* C11: after an Init call that got past the no-model test the pool holds
\* exactly the number of workers its thread count asks for, and a Detect call
\* that follows an Init with thread count 1 gives the workers no task.
WorkersSizedByInit ==
    /\ (last.op = "Init" /\ data # <<>>) => workers = PoolSize(last.in.threadNumber)
    /\ (last.op = "Detect" /\ workers = 0) => last.fx.tasks = 0

\* the candidates of each tag that the evaluators of the levels give for the
\* image and the motion arguments of the most recent Detect call, every
\* evaluator taken with the model it was bound to
CandidatesByTag ==
    DetectLevels(1, [levels |-> FillLevels(levels, last.in.src, needNormalization),
                     cands |-> [t \in AllTags |-> <<>>], tasks |-> 0, rects |-> <<>>],
                 last.in.motion.motionMask, last.in.motion.motionRegions, workers, data).cands

ObjectsOfTag(t) ==
    LET HasTag(o) == o.tag = t IN SelectSeq(objects, HasTag)

\* C16: after a successful Detect every returned object carries the tag of a
\* loaded model, and the objects of a tag are what GroupObjects gives for the
\* candidates of that tag alone: no object counts candidates of another tag and
\* the candidates of the other tags make no difference to them.
TagsGroupedApart ==
    (last.op = "Detect" /\ last.ret) =>
        /\ \A k \in 1..Len(objects) : \E i \in 1..Len(data) : objects[k].tag = data[i].tag
        /\ \A t \in AllTags :
              ObjectsOfTag(t) = GroupObjects(<<>>, CandidatesByTag[t], last.in.g.groupSizeMin,
                                             last.in.g.sizeDifferenceMax)

\* C21: after a successful Detect the source of every level but the first is
\* the image of the call resized from the refreshed source of the level before
\* it, not from the first level's source and not from the input image.
LevelsResizedFromPrevious ==
    (last.op = "Detect" /\ last.ret) =>
        \A i \in 2..Len(levels) :
            /\ levels[i].src.img = last.in.src.id
            /\ levels[i].src.from = i - 1

\* the models of the evaluators bound to a level
BoundModels(level) == {data[level.hids[j].data] : j \in 1..Len(level.hids)}

\* C22: after a successful Detect the sum integral of every level is computed
\* from the level's refreshed source, so is the squared-sum integral of a level
\* with a Haar evaluator, and so is the tilted integral of a level with a model
\* that declares tilted support, Haar or not.
IntegralsRefreshed ==
    (last.op = "Detect" /\ last.ret) =>
        \A i \in 1..Len(levels) :
            /\ levels[i].src.img = last.in.src.id
            /\ levels[i].sum = levels[i].src
            /\ (\E d \in BoundModels(levels[i]) : d.haar) => levels[i].sqsum = levels[i].src
            /\ (\E d \in BoundModels(levels[i]) : d.tilted) => levels[i].tilted = levels[i].src

-----------------------------------------------------------------------------
(* Init step by step: the scale iteration of InitLevels, one iteration of   *)
(* the do-while loop per step, for one Init call on a loaded registry.      *)
(* il = [pc, a, failAt, st]: a the arguments of Init, st the loop's state.  *)

Loadable == {a \in LoadArgs : CanParse(a[1])} \cup {<<"tall.xml", 7>>}

\* the contents _data can have after up to MaxModels successful Load calls
Registries ==
    UNION {{[i \in 1..n |-> Entry(f[i][1], f[i][2], i)] : f \in [1..n -> Loadable]} : n \in 0..MaxModels}

ImageSizes == {<<4, 4>>, <<6, 5>>, <<9, 7>>, <<5, 9>>}
ScaleFactors == {<<5, 4>>, <<3, 2>>, <<2, 1>>}
SizeMins == {<<0, 0>>, <<3, 3>>, <<5, 5>>}
SizeMaxs == {<<IntMax, IntMax>>, <<4, 4>>, <<3, 2>>}
\* the arguments of the Init calls: no ROI, one thread
LevelsInitArgs ==
    {InitArg(size, sf, smin, smax, NoView, 1) :
        size \in ImageSizes, sf \in ScaleFactors, smin \in SizeMins, smax \in SizeMaxs}

StartLevelsCall ==
    /\ data \in Registries
    /\ dataCap = Len(data)
    /\ imageSize = <<0, 0>>
    /\ needNormalization \in BOOLEAN
    /\ levels = <<>>
    /\ dangling = FALSE
    /\ workers = 0
    /\ objects = <<>>
    /\ last = [op |-> "new", ret |-> TRUE, in |-> <<>>, fx |-> NoFx]
    /\ initOk = "none"
    /\ il \in {[pc |-> "call", a |-> a, failAt |-> failAt, st |-> StartLevels] :
                    a \in LevelsInitArgs, failAt \in 0..MaxFail}
    /\ hd = IdleHid
    /\ go = IdleGroup
    /\ wk = IdlePool
    /\ nh = [pc |-> "unused"]

\* if (_data.empty()) return false
LevelsRejected ==
    /\ il.pc = "call"
    /\ data = <<>>
    /\ il' = [il EXCEPT !.pc = "returned"]
    /\ last' = [op |-> "Init", ret |-> FALSE, in |-> il.a, fx |-> NoFx]
    /\ initOk' = "false"
    /\ UNCHANGED <<data, dataCap, imageSize, needNormalization, levels, dangling,
                   workers, objects, hd, go, wk, nh>>

\* _imageSize = imageSize; InitWorkers(threadNumber); InitLevels up to the loop
LevelsEnter ==
    /\ il.pc = "call"
    /\ data # <<>>
    /\ imageSize' = il.a.size
    /\ workers' = InitWorkers(workers, il.a.threadNumber)
    /\ needNormalization' = StartLevels.needNorm
    /\ levels' = StartLevels.levels
    /\ il' = [il EXCEPT !.pc = "loop"]
    /\ UNCHANGED <<data, dataCap, dangling, objects, last, initOk, hd, go, wk, nh>>

\* one pass through the body of do { ... } while (true)
LevelsIterate ==
    /\ il.pc = "loop"
    /\ il.st.pc # "done"
    /\ il' = [il EXCEPT !.st = ScaleStep(il.st, LevelArgs(il.a, il.failAt))]
    /\ levels' = il'.st.levels
    /\ needNormalization' = il'.st.needNorm
    /\ UNCHANGED <<data, dataCap, imageSize, dangling, workers, objects, last, initOk, hd, go, wk, nh>>

\* Init returns what InitLevels returned
LevelsReturn ==
    /\ il.pc = "loop"
    /\ il.st.pc = "done"
    /\ il' = [il EXCEPT !.pc = "returned"]
    /\ last' = [op |-> "Init", ret |-> il.st.ret, in |-> il.a,
                 fx |-> [NoFx EXCEPT !.bindFailed = il.st.failed, !.emitted = il.st.emitted]]
    /\ initOk' = IF il.st.ret THEN "true" ELSE "false"
    /\ UNCHANGED <<data, dataCap, imageSize, needNormalization, levels, dangling,
                   workers, objects, hd, go, wk, nh>>

NextLevels == LevelsRejected \/ LevelsEnter \/ LevelsIterate \/ LevelsReturn

\* the thread that called Init keeps running until Init returns
SpecLevels == StartLevelsCall /\ [][NextLevels]_vars /\ WF_vars(NextLevels)

-----------------------------------------------------------------------------
(* Properties of the scale iteration (SpecLevels).  The tests on a model's  *)
(* scaled window are stated here in the terms of Init's arguments.          *)

RatEq(a, b) == a[1] * b[2] = b[1] * a[2]

\* the scaled window of model m is >= sizeMin, <= sizeMax and <= the image size
QualifiesAt(m, scale) ==
    LET w == SizeMul(data[m].size, scale) IN
    /\ w[1] >= il.a.sizeMin[1] /\ w[2] >= il.a.sizeMin[2]
    /\ w[1] <= il.a.sizeMax[1] /\ w[2] <= il.a.sizeMax[2]
    /\ w[1] <= il.a.size[1] /\ w[2] <= il.a.size[2]

\* the scaled window of model m exceeds sizeMax or the image size
ExceedsAt(m, scale) ==
    LET w == SizeMul(data[m].size, scale) IN
    \/ w[1] > il.a.sizeMax[1] \/ w[2] > il.a.sizeMax[2]
    \/ w[1] > il.a.size[1] \/ w[2] > il.a.size[2]

SomeQualifiesAt(scale) == \E m \in 1..Len(data) : QualifiesAt(m, scale)
AllExceedAt(scale) == \A m \in 1..Len(data) : ExceedsAt(m, scale)
LevelAt(scale) == \E i \in 1..Len(levels) : RatEq(levels[i].scale, scale)

\* C5: for every scale the iteration visited there is a level of that scale
\* exactly if some model qualifies at it; every level has one evaluator for each
\* model that qualifies at its scale and none for any other; the levels' scales
\* are >= 1 and strictly increasing.
EmittedLevelsExact ==
    il.pc \in {"loop", "returned"} =>
        /\ \A k \in 1..Len(il.st.visited) :
              LevelAt(il.st.visited[k]) <=> SomeQualifiesAt(il.st.visited[k])
        /\ \A i \in 1..Len(levels), m \in 1..Len(data) :
              Cardinality({j \in 1..Len(levels[i].hids) : levels[i].hids[j].data = m})
                  = IF QualifiesAt(m, levels[i].scale) THEN 1 ELSE 0
        /\ \A i \in 1..Len(levels) : RatLe(<<1, 1>>, levels[i].scale)
        /\ \A i \in 1..Len(levels) - 1 : RatLt(levels[i].scale, levels[i + 1].scale)

\* the scales visited are 1, scaleFactor, scaleFactor^2, ... without a gap, and
\* no scale but the last visited is one at which every model exceeds
VisitedInOrder ==
    il.pc \in {"loop", "returned"} =>
        /\ \A k \in 1..Len(il.st.visited) - 1 :
              /\ RatEq(il.st.visited[k + 1], RatMul(il.st.visited[k], il.a.scaleFactor))
              /\ ~AllExceedAt(il.st.visited[k])
        /\ Len(il.st.visited) >= 1 => il.st.visited[1] = <<1, 1>>
        /\ \A k \in 1..Len(il.st.visited) : SomeQualifiesAt(il.st.visited[k]) => LevelAt(il.st.visited[k])

\* a visited scale at which models fit but all of them are below sizeMin has no
\* level and is not the last one visited
BelowMinContinues ==
    il.pc = "returned" =>
        \A k \in 1..Len(il.st.visited) :
            (~AllExceedAt(il.st.visited[k]) /\ ~SomeQualifiesAt(il.st.visited[k]))
                => (~LevelAt(il.st.visited[k]) /\ k < Len(il.st.visited))

\* the iteration has ended at the first scale at which every model exceeds
StoppedAtExit ==
    /\ il.st.visited # <<>>
    /\ AllExceedAt(il.st.visited[Len(il.st.visited)])

\* the iteration has ended at a scale at which a model qualifies and whose
\* native bind failed
StoppedAtFailedBind ==
    /\ il.st.visited # <<>>
    /\ il.st.failed
    /\ SomeQualifiesAt(il.st.visited[Len(il.st.visited)])

\* C6 (amended): the scale iteration terminates; it stops at the first scale at
\* which every model's window exceeds sizeMax or the image size, or before that
\* at a scale whose native bind fails; a scale at which the fitting models are
\* all below sizeMin gets no level and does not stop it, and up to the scale
\* it stops at no scale is skipped.
ScaleIterationTerminates ==
    /\ <>(il.pc = "returned")
    /\ [](VisitedInOrder /\ BelowMinContinues)
    /\ []((il.pc = "returned" /\ data # <<>>) => (StoppedAtExit \/ StoppedAtFailedBind))

\* C6 as stated: whenever the iteration has ended, it has ended at the first
\* scale at which every model's window exceeds sizeMax or the image size.
ScaleIterationStopsAtExit ==
    (il.pc = "returned" /\ data # <<>>) => StoppedAtExit

\* an iteration that went past a scale where every fitting model was below
\* sizeMin, pushed a level at a later scale and stopped where all models exceed
WentPastBelowMin ==
    /\ il.pc = "returned"
    /\ ~il.st.failed
    /\ StoppedAtExit
    /\ levels # <<>>
    /\ \E k \in 1..Len(il.st.visited) :
          /\ ~AllExceedAt(il.st.visited[k])
          /\ ~SomeQualifiesAt(il.st.visited[k])
          /\ RatLt(il.st.visited[k], levels[1].scale)

\* sizeMin is greater than sizeMax in both components
MinAboveMax == il.a.sizeMin[1] > il.a.sizeMax[1] /\ il.a.sizeMin[2] > il.a.sizeMax[2]

\* C8: Init with sizeMin greater than sizeMax in both components builds no
\* level and returns false, whatever the models, the image and the scale factor.
NoLevelWhenMinAboveMax ==
    (il.pc \in {"loop", "returned"} /\ MinAboveMax) =>
        /\ levels = <<>>
        /\ il.pc = "returned" => (last.op = "Init" /\ ~last.ret)

\* such an Init on two models, returned after visiting scales at which models
\* fitted below sizeMax
ReturnedWithMinAboveMax ==
    /\ il.pc = "returned"
    /\ MinAboveMax
    /\ Len(data) = 2
    /\ Len(il.st.visited) >= 2
    /\ ~last.ret

\* C28: every evaluator of every level has the Haar routine exactly when its
\* model is Haar-type, the LBP int16 routine exactly when its model is LBP with
\* the int16 flag and the LBP float32 routine exactly when it is LBP without;
\* it has the column-scan variant exactly when the level is through-column,
\* which the level is exactly when its scale is <= 2; and the step AddObjects
\* takes for the level (2 when through-column, else 1) is the scan step of the
\* evaluator's routine.
RoutinesMatchModels ==
    \A i \in 1..Len(levels) :
        /\ levels[i].throughColumn <=> (levels[i].scale[1] <= 2 * levels[i].scale[2])
        /\ \A j \in 1..Len(levels[i].hids) :
              LET detect == levels[i].hids[j].detect
                  d == data[levels[i].hids[j].data]
              IN  /\ detect \in {"HaarDetect32fi", "HaarDetect32fp"} <=> d.haar
                  /\ detect \in {"LbpDetect16ii", "LbpDetect16ip"} <=> (~d.haar /\ d.int16)
                  /\ detect \in {"LbpDetect32fi", "LbpDetect32fp"} <=> (~d.haar /\ ~d.int16)
                  /\ detect \in {"HaarDetect32fi", "LbpDetect16ii", "LbpDetect32fi"}
                         <=> levels[i].throughColumn
                  /\ RoutineStride(detect) = IF levels[i].throughColumn THEN 2 ELSE 1

\* an Init has returned a pyramid with a Haar and an LBP int16 evaluator on a
\* level of scale above 2 and on a level of scale at most 2
BothScansBound ==
    /\ il.pc = "returned"
    /\ \E i \in 1..Len(levels), k \in 1..Len(levels) :
          /\ levels[i].throughColumn
          /\ ~levels[k].throughColumn
          /\ \E j \in 1..Len(levels[i].hids) : levels[i].hids[j].detect = "LbpDetect16ii"
          /\ \E j \in 1..Len(levels[i].hids) : levels[i].hids[j].detect = "HaarDetect32fi"
          /\ \E j \in 1..Len(levels[k].hids) : levels[k].hids[j].detect = "LbpDetect16ip"
          /\ \E j \in 1..Len(levels[k].hids) : levels[k].hids[j].detect = "HaarDetect32fp"

-----------------------------------------------------------------------------
(* Hid::Detect step by step, for one evaluator of one level of a pyramid    *)
(* that Init built and FillLevels refreshed: the bitmap is cleared, one     *)
(* strip is added per worker, the workers run their strips in any order,    *)
(* the caller waits for all of them and AddObjects reads the bitmap.        *)
(* hd = [pc, level, hid, mask, rect, r, step, next, queued, ran, cands].    *)

StripRegistry == <<Entry("haar.xml", 7, 1), Entry("lbp.xml", UNDEFINED_OBJECT_TAG, 2)>>

StripInits ==
    {InitArg(<<12, 10>>, <<3, 2>>, <<0, 0>>, <<IntMax, IntMax>>, NoView, -1),
     InitArg(<<12, 10>>, <<3, 2>>, <<0, 0>>, <<IntMax, IntMax>>,
             [format |-> "Gray8", nonzero |-> Rect(1, 1, 11, 10)], -1)}

StripImage == [id |-> 2, size |-> <<12, 10>>]

StripMotions ==
    {[motionMask |-> FALSE, motionRegions |-> <<>>],
     [motionMask |-> TRUE, motionRegions |-> <<Rect(0, 0, 9, 7)>>],
     [motionMask |-> TRUE, motionRegions |-> <<Rect(4, 3, 12, 10), Rect(0, 1, 3, 4)>>]}

\* the sizes the pool can have when Detect runs the parallel path
StripWorkers == 2..(MaxWorkers + 1)

\* the pyramid Init(a) builds on the registry, refreshed by FillLevels(StripImage)
StripPyramid(a) ==
    LET built == InitLevels(LevelArgs(a, 0))
    IN  [ret |-> built.ret, needNorm |-> built.needNorm,
         levels |-> FillLevels(built.levels, StripImage, built.needNorm)]

\* Detect up to the call of hid.Detect for evaluator j of level i; fm is what
\* FillMotionMask gives for the level
StripCall(a, py, m, stale, i, j, fm) ==
    LET level == IF m.motionMask THEN [py.levels[i] EXCEPT !.mask = fm.mask] ELSE py.levels[i]
        rect == IF m.motionMask THEN fm.rect ELSE level.rect
        mask == IF m.motionMask THEN level.mask ELSE level.roi
        before == IF stale THEN Cells(RectOfSize(level.size)) ELSE {}
    IN  /\ ~Empty(rect)
        /\ imageSize = a.size
        /\ needNormalization = py.needNorm
        /\ levels = [py.levels EXCEPT ![i] = [level EXCEPT !.dst = before]]
        /\ last = [op |-> "Init", ret |-> py.ret, in |-> a, fx |-> NoFx]
        /\ hd = [pc |-> "call", level |-> i, hid |-> j, mask |-> mask, rect |-> rect,
                 r |-> EmptyRect, step |-> 0, next |-> 0, queued |-> {}, ran |-> {},
                 cands |-> <<>>]

StripCalls(a, py, m, stale) ==
    \E i \in 1..Len(py.levels) : \E j \in 1..Len(py.levels[i].hids) :
        StripCall(a, py, m, stale, i, j, FillMotionMask(m.motionRegions, py.levels[i]))

StartStrips ==
    /\ data = StripRegistry
    /\ dataCap = Len(data)
    /\ dangling = FALSE
    /\ workers \in StripWorkers
    /\ objects = <<>>
    /\ initOk = "true"
    /\ il = IdleLevels
    /\ go = IdleGroup
    /\ wk = IdlePool
    /\ nh = [pc |-> "unused"]
    /\ \E a \in StripInits, m \in StripMotions, stale \in BOOLEAN :
            StripCalls(a, StripPyramid(a), m, stale)

\* data->size of the evaluator hd names
StripSize == data[levels[hd.level].hids[hd.hid].data].size

\* Size s = ...; View m = ...; Rect r = ...; Simd::Fill(dst, 0); SimdDetectionPrepare
StripsBegin ==
    /\ hd.pc = "call"
    /\ levels' = [levels EXCEPT ![hd.level].dst = {}]
    /\ hd' = [hd EXCEPT !.pc = "add",
                        !.r = ValidRect(hd.rect, levels[hd.level].size, StripSize),
                        !.step = StripStep(ValidRect(hd.rect, levels[hd.level].size, StripSize),
                                           workers, levels[hd.level].throughColumn)]
    /\ UNCHANGED <<data, dataCap, imageSize, needNormalization, dangling, workers, objects,
                   last, initOk, il, go, wk, nh>>

\* workers[i]->Add((Hid*)this, m, r.left, top, r.right, bottom, dst), i = hd.next
StripsAdd ==
    /\ hd.pc = "add"
    /\ hd' = [hd EXCEPT !.queued = @ \cup {hd.next}, !.next = @ + 1,
                        !.pc = IF hd.next + 1 < workers THEN "add" ELSE "wait"]
    /\ UNCHANGED <<data, dataCap, imageSize, needNormalization, levels, dangling, workers,
                   objects, last, initOk, il, go, wk, nh>>

\* worker i runs the task at the front of its queue and pops it
StripsRun(i) ==
    /\ i \in hd.queued \ hd.ran
    /\ levels' = [levels EXCEPT ![hd.level].dst =
                    @ \cup DetectCall(levels[hd.level], levels[hd.level].hids[hd.hid], hd.mask,
                                      <<StripSize[1] \div 2, StripSize[2] \div 2>>,
                                      hd.r.left, StripTop(hd.r, i, hd.step),
                                      hd.r.right, StripBottom(hd.r, i, hd.step))]
    /\ hd' = [hd EXCEPT !.ran = @ \cup {i}]
    /\ UNCHANGED <<data, dataCap, imageSize, needNormalization, dangling, workers, objects,
                   last, initOk, il, go, wk, nh>>

\* for (i = 0; i < workers.size(); ++i) workers[i]->Wait()
StripsWait ==
    /\ hd.pc = "wait"
    /\ hd.ran = hd.queued
    /\ hd' = [hd EXCEPT !.pc = "aggregate"]
    /\ UNCHANGED <<data, dataCap, imageSize, needNormalization, levels, dangling, workers,
                   objects, last, initOk, il, go, wk, nh>>

\* AddObjects(candidates[hid.data->tag], level.dst, rect, hid.data->size, ...)
StripsAggregate ==
    /\ hd.pc = "aggregate"
    /\ hd' = [hd EXCEPT !.pc = "done",
                        !.cands = AddObjects(hd.cands, levels[hd.level].dst, levels[hd.level].size,
                                             hd.rect, StripSize, levels[hd.level].scale,
                                             IF levels[hd.level].throughColumn THEN 2 ELSE 1,
                                             data[levels[hd.level].hids[hd.hid].data].tag)]
    /\ UNCHANGED <<data, dataCap, imageSize, needNormalization, levels, dangling, workers,
                   objects, last, initOk, il, go, wk, nh>>

NextStrips ==
    \/ StripsBegin
    \/ StripsAdd
    \/ \E i \in 0..MaxWorkers : StripsRun(i)
    \/ StripsWait
    \/ StripsAggregate

SpecStrips == StartStrips /\ [][NextStrips]_vars

-----------------------------------------------------------------------------
(* Properties of the strips (SpecStrips). *)

\* the bitmap the synchronous call leaves for the evaluator: workers.empty()
SynchronousDst ==
    HidDetect(levels[hd.level], levels[hd.level].hids[hd.hid], hd.mask, hd.rect, 0, StripSize).dst

StripRows(i) == StripTop(hd.r, i, hd.step) .. StripBottom(hd.r, i, hd.step) - 1

\* C26 (amended): for N >= 2 workers every strip lies between r.top and
\* r.bottom at its bottom and starts at or after r.top; the strips that hold
\* rows are the first ones, each starting where the one before it ends, and
\* their union is exactly [r.top, r.bottom); every other strip is empty, its
\* bottom r.bottom and its top at or beyond r.bottom.
StripsCoverRows ==
    (hd.pc \in {"add", "wait", "aggregate", "done"} /\ hd.r.bottom >= hd.r.top) =>
        /\ \A i \in 0..workers - 1 :
              /\ hd.r.top <= StripTop(hd.r, i, hd.step)
              /\ hd.r.top <= StripBottom(hd.r, i, hd.step)
              /\ StripBottom(hd.r, i, hd.step) <= hd.r.bottom
              /\ IF StripRows(i) # {}
                 THEN i > 0 => /\ StripRows(i - 1) # {}
                               /\ StripTop(hd.r, i, hd.step) = StripBottom(hd.r, i - 1, hd.step)
                 ELSE /\ StripBottom(hd.r, i, hd.step) = hd.r.bottom
                      /\ StripTop(hd.r, i, hd.step) >= hd.r.bottom
        /\ UNION {StripRows(i) : i \in 0..workers - 1} = hd.r.top .. hd.r.bottom - 1

\* C26 as stated: every strip has r.top <= top <= bottom <= r.bottom and starts
\* where the one before it ends, and the union of the strips is [r.top, r.bottom).
StripsConsecutive ==
    (hd.pc \in {"add", "wait", "aggregate", "done"} /\ hd.r.bottom >= hd.r.top) =>
        /\ \A i \in 0..workers - 1 :
              /\ hd.r.top <= StripTop(hd.r, i, hd.step)
              /\ StripTop(hd.r, i, hd.step) <= StripBottom(hd.r, i, hd.step)
              /\ StripBottom(hd.r, i, hd.step) <= hd.r.bottom
              /\ i > 0 => StripTop(hd.r, i, hd.step) = StripBottom(hd.r, i - 1, hd.step)
        /\ UNION {StripRows(i) : i \in 0..workers - 1} = hd.r.top .. hd.r.bottom - 1

\* the workers have run the strips of a sub-rectangle with rows, of which the
\* last strip starts beyond r.bottom
StripBeyondBottom ==
    /\ hd.pc = "aggregate"
    /\ hd.r.bottom > hd.r.top
    /\ StripRows(1) # {}
    /\ StripTop(hd.r, workers - 1, hd.step) > hd.r.bottom

\* the rows of strip i its detection routine evaluates: from the strip's top,
\* the routine's scan step apart
ScannedRows(i) ==
    {row \in StripRows(i) :
        (row - StripTop(hd.r, i, hd.step)) % RoutineStride(levels[hd.level].hids[hd.hid].detect) = 0}

\* the rows AddObjects reads: from r.top, its step apart
AggregatedRows ==
    {row \in hd.r.top .. hd.r.bottom - 1 :
        (row - hd.r.top) % (IF levels[hd.level].throughColumn THEN 2 ELSE 1) = 0}

-----------------------------------------------------------------------------
(* GroupObjects step by step, for the candidates of one tag: the entry     *)
(* test, Partition, the accumulation loop, the averaging loop and the      *)
(* final loop, each one step.                                              *)
(* go = [pc, src, groupSizeMin, sdm, before, skipped, labels, nclasses,    *)
(*       buffer, round, first]: before is dst as the call found it; round 2 *)
(* is a call on the one object a first call produced (first).              *)

MaxCands == 3
MaxWeight == 4

GroupTag == 7

GroupRects ==
    {Rect(10, 10, 50, 50), Rect(12, 12, 52, 52), Rect(19, 19, 59, 59),
     Rect(0, 0, 100, 100), Rect(0, 0, 20, 4), Rect(3, 0, 23, 4)}

\* pairs of rectangles for the lists that hold many candidates at two places
WeightedPairs ==
    {<<Rect(0, 0, 100, 100), Rect(10, 10, 50, 50)>>,
     <<Rect(10, 10, 50, 50), Rect(19, 19, 59, 59)>>,
     <<Rect(0, 0, 20, 4), Rect(3, 0, 23, 4)>>}

\* what AddObjects pushes for a hit: weight 1 and the evaluator's tag
Candidate(r) == Object(r, 1, GroupTag)

Repeated(r, n) == [k \in 1..n |-> Candidate(r)]

\* the candidate lists of a tag: every list of up to MaxCands candidates, and
\* lists of up to MaxWeight candidates at each of two places
CandidateLists ==
    UNION {{[k \in 1..n |-> Candidate(f[k])] : f \in [1..n -> GroupRects]} : n \in 0..MaxCands}
    \cup {Repeated(p[1], a) \o Repeated(p[2], b) : p \in WeightedPairs, a \in 0..MaxWeight, b \in 0..MaxWeight}

NoObject == Object(EmptyRect, 0, UNDEFINED_OBJECT_TAG)

GroupCall(src, groupSizeMin, sdm, before, round, first) ==
    [pc |-> "call", src |-> src, groupSizeMin |-> groupSizeMin, sdm |-> sdm, before |-> before,
     skipped |-> FALSE, labels |-> <<>>, nclasses |-> 0, buffer |-> <<>>,
     round |-> round, first |-> first]

StartGroup ==
    /\ data = <<>>
    /\ dataCap = 0
    /\ imageSize = <<0, 0>>
    /\ needNormalization = FALSE
    /\ levels = <<>>
    /\ dangling = FALSE
    /\ workers = 0
    \* what Detect's vector holds when the tag's turn comes: nothing, or the
    \* objects of a tag grouped before
    /\ objects \in {<<>>, <<Object(Rect(1, 1, 3, 3), 2, UNDEFINED_OBJECT_TAG)>>}
    /\ last = [op |-> "new", ret |-> TRUE, in |-> <<>>, fx |-> NoFx]
    /\ initOk = "none"
    /\ il = IdleLevels
    /\ hd = IdleHid
    /\ go \in {GroupCall(src, n, sdm, objects, 1, NoObject) :
                    src \in CandidateLists, n \in 0..3, sdm \in {<<1, 5>>, <<1, 2>>}}
    /\ wk = IdlePool
    /\ nh = [pc |-> "unused"]

\* if (groupSizeMin == 0 || src.size() < groupSizeMin) return
GroupReturnsAtOnce ==
    /\ go.pc = "call"
    /\ GroupSkips(go.src, go.groupSizeMin)
    /\ go' = [go EXCEPT !.pc = "returned", !.skipped = TRUE]
    /\ UNCHANGED <<data, dataCap, imageSize, needNormalization, levels, dangling, workers,
                   objects, last, initOk, il, hd, wk, nh>>

\* int nclasses = Partition(src, labels, sizeDifferenceMax); buffer.resize(nclasses)
GroupPartition ==
    /\ go.pc = "call"
    /\ ~GroupSkips(go.src, go.groupSizeMin)
    /\ go' = [go EXCEPT !.pc = "labelled",
                        !.labels = Partition(go.src, go.sdm).labels,
                        !.nclasses = Partition(go.src, go.sdm).nclasses,
                        !.buffer = EmptyBuffer(Partition(go.src, go.sdm).nclasses)]
    /\ UNCHANGED <<data, dataCap, imageSize, needNormalization, levels, dangling, workers,
                   objects, last, initOk, il, hd, wk, nh>>

\* for (i = 0; i < labels.size(); ++i) { rect += ...; weight++; tag = ...; }
GroupAccumulate ==
    /\ go.pc = "labelled"
    /\ go' = [go EXCEPT !.pc = "summed",
                        !.buffer = Accumulate([buffer |-> go.buffer, i |-> 1], go.src, go.labels)]
    /\ UNCHANGED <<data, dataCap, imageSize, needNormalization, levels, dangling, workers,
                   objects, last, initOk, il, hd, wk, nh>>

\* for (i = 0; i < buffer.size(); i++) buffer[i].rect = buffer[i].rect / double(weight)
GroupAverage ==
    /\ go.pc = "summed"
    /\ go' = [go EXCEPT !.pc = "averaged", !.buffer = Averaged(go.buffer)]
    /\ UNCHANGED <<data, dataCap, imageSize, needNormalization, levels, dangling, workers,
                   objects, last, initOk, il, hd, wk, nh>>

\* the final loop: dst.push_back(buffer[i]) for the clusters that survive
GroupEmit ==
    /\ go.pc = "averaged"
    /\ objects' = objects \o Survivors(go.buffer, go.groupSizeMin, go.sdm)
    /\ go' = [go EXCEPT !.pc = "returned"]
    /\ UNCHANGED <<data, dataCap, imageSize, needNormalization, levels, dangling, workers,
                   last, initOk, il, hd, wk, nh>>

\* GroupObjects called again, with the same parameters, on the one object a
\* first call added to an empty vector
GroupAgain ==
    /\ go.pc = "returned"
    /\ go.round = 1
    /\ go.before = <<>>
    /\ Len(objects) = 1
    /\ objects' = <<>>
    /\ go' = GroupCall(objects, go.groupSizeMin, go.sdm, <<>>, 2, objects[1])
    /\ UNCHANGED <<data, dataCap, imageSize, needNormalization, levels, dangling, workers,
                   last, initOk, il, hd, wk, nh>>

NextGroup ==
    \/ GroupReturnsAtOnce
    \/ GroupPartition
    \/ GroupAccumulate
    \/ GroupAverage
    \/ GroupEmit
    \/ GroupAgain

SpecGroup == StartGroup /\ [][NextGroup]_vars

-----------------------------------------------------------------------------
(* Detect with a pool of workers, thread by thread: the calling thread runs *)
(* the loops of Detect and Hid::Detect (Add and Wait on every worker), each *)
(* worker thread runs Worker::Run.  A step of a thread is one access to a   *)
(* queue or one critical section.                                           *)
(* hd = [pc, level, hid, mask, rect, r, step, next, cands, in] is the       *)
(* calling thread; wk = [pc, queue, mutex, cur, freed, ran, popped] the     *)
(* workers: pc, queue, mutex, cur (the task Task::Run works on and whether  *)
(* it is the one in the queue) and freed (the Task the last pop released)   *)
(* per worker, ran and popped the tasks run and popped so far.              *)

\* two cascades whose windows differ in height
PoolRegistry == <<Entry("haar.xml", 7, 1), Entry("tall.xml", UNDEFINED_OBJECT_TAG, 2)>>

PoolInit == InitArg(<<4, 10>>, <<2, 1>>, <<0, 0>>, <<IntMax, IntMax>>, NoView, -1)

PoolImage == [id |-> 2, size |-> <<4, 10>>]

PoolCalls ==
    {[src |-> PoolImage, g |-> [groupSizeMin |-> 1, sizeDifferenceMax |-> <<1, 5>>], motion |-> m] :
        m \in {[motionMask |-> FALSE, motionRegions |-> <<>>],
               [motionMask |-> TRUE, motionRegions |-> <<Rect(0, 0, 4, 9)>>]}}

\* Task(h, m, l, t, r, b, d): the evaluator, the view of the mask, the rows and
\* columns and the bitmap of its level; worker names the queue it is added to
Task(level, hid, worker, mask, off, r, top, bottom) ==
    [level |-> level, hid |-> hid, worker |-> worker, mask |-> mask, off |-> off,
     left |-> r.left, top |-> top, right |-> r.right, bottom |-> bottom]

NoTask == Task(0, 0, 0, {}, <<0, 0>>, EmptyRect, 0, 0)

TaskId(t) == <<t.level, t.hid, t.worker>>

\* Worker(): an empty queue, a free mutex, the thread at the top of Run's loop
NewWorkers(n) ==
    [pc |-> [i \in 0..n - 1 |-> "test"],
     queue |-> [i \in 0..n - 1 |-> <<>>],
     mutex |-> [i \in 0..n - 1 |-> "free"],
     cur |-> [i \in 0..n - 1 |-> [task |-> NoTask, queued |-> FALSE]],
     freed |-> [i \in 0..n - 1 |-> NoTask],
     ran |-> {}, popped |-> {}]

\* Detect past its entry test and FillLevels, before the loop over _levels
PoolCall(a, py, in) ==
    /\ imageSize = a.size
    /\ needNormalization = py.needNorm
    /\ levels = py.levels
    /\ last = [op |-> "Init", ret |-> py.ret, in |-> a, fx |-> NoFx]
    /\ hd = [pc |-> "level", level |-> 1, hid |-> 1, mask |-> {}, rect |-> EmptyRect,
             r |-> EmptyRect, step |-> 0, next |-> 0, cands |-> [t \in AllTags |-> <<>>],
             in |-> in]

StartPool ==
    /\ data = PoolRegistry
    /\ dataCap = Len(data)
    /\ dangling = FALSE
    /\ workers \in 2..MaxWorkers
    /\ objects = <<>>
    /\ initOk = "true"
    /\ il = IdleLevels
    /\ go = IdleGroup
    /\ wk = NewWorkers(workers)
    /\ nh = [pc |-> "unused"]
    /\ \E in \in PoolCalls :
          PoolCall(PoolInit,
                   [ret |-> InitLevels(LevelArgs(PoolInit, 0)).ret,
                    needNorm |-> InitLevels(LevelArgs(PoolInit, 0)).needNorm,
                    levels |-> FillLevels(InitLevels(LevelArgs(PoolInit, 0)).levels, in.src,
                                          InitLevels(LevelArgs(PoolInit, 0)).needNorm)],
                   in)

\* a read of front() that raced with push_back has given a pointer to no Task
Crashed == \E i \in DOMAIN wk.pc : wk.pc[i] = "crashed"

\* for (i ...) { level, mask, rect; if (motionMask) FillMotionMask; if (rect.Empty()) continue; }
PoolLevel ==
    /\ hd.pc = "level"
    /\ ~Crashed
    /\ hd.level <= Len(levels)
    /\ LET fm == FillMotionMask(hd.in.motion.motionRegions, levels[hd.level])
           moving == hd.in.motion.motionMask
           rect == IF moving THEN fm.rect ELSE levels[hd.level].rect
       IN  /\ levels' = IF moving THEN [levels EXCEPT ![hd.level].mask = fm.mask] ELSE levels
           /\ hd' = IF Empty(rect)
                    THEN [hd EXCEPT !.level = @ + 1]
                    ELSE [hd EXCEPT !.pc = "hid", !.hid = 1, !.rect = rect,
                                    !.mask = IF moving THEN fm.mask ELSE levels[hd.level].roi]
    /\ UNCHANGED <<data, dataCap, imageSize, needNormalization, dangling, workers, objects,
                   last, initOk, il, go, wk, nh>>

\* for (j ...): the loop over level.hids has ended
PoolNextLevel ==
    /\ hd.pc = "hid"
    /\ ~Crashed
    /\ hd.hid > Len(levels[hd.level].hids)
    /\ hd' = [hd EXCEPT !.pc = "level", !.level = @ + 1]
    /\ UNCHANGED <<data, dataCap, imageSize, needNormalization, levels, dangling, workers,
                   objects, last, initOk, il, go, wk, nh>>

\* hid.Detect(...) up to the loop of Add: s, m, r, Simd::Fill(dst, 0), step
PoolHidBegin ==
    /\ hd.pc = "hid"
    /\ ~Crashed
    /\ hd.hid <= Len(levels[hd.level].hids)
    /\ levels' = [levels EXCEPT ![hd.level].dst = {}]
    /\ hd' = [hd EXCEPT !.pc = "lock", !.next = 0,
                        !.r = ValidRect(hd.rect, levels[hd.level].size, StripSize),
                        !.step = StripStep(ValidRect(hd.rect, levels[hd.level].size, StripSize),
                                           workers, levels[hd.level].throughColumn)]
    /\ UNCHANGED <<data, dataCap, imageSize, needNormalization, dangling, workers, objects,
                   last, initOk, il, go, wk, nh>>

\* the task Add gives worker hd.next
PendingTask ==
    Task(hd.level, hd.hid, hd.next, hd.mask, <<StripSize[1] \div 2, StripSize[2] \div 2>>,
         hd.r, StripTop(hd.r, hd.next, hd.step), StripBottom(hd.r, hd.next, hd.step))

\* Worker::Add: std::unique_lock<std::mutex> lk(_mutex)
PoolAddLock ==
    /\ hd.pc = "lock"
    /\ ~Crashed
    /\ wk.mutex[hd.next] = "free"
    /\ wk' = [wk EXCEPT !.mutex[hd.next] = "caller"]
    /\ hd' = [hd EXCEPT !.pc = "push"]
    /\ UNCHANGED <<data, dataCap, imageSize, needNormalization, levels, dangling, workers,
                   objects, last, initOk, il, go, nh>>

\* Worker::Add: _tasks.push(TaskPtr(new Task(...))) and the end of the lock's scope
PoolAddPush ==
    /\ hd.pc = "push"
    /\ ~Crashed
    /\ wk' = [wk EXCEPT !.queue[hd.next] = Append(@, PendingTask), !.mutex[hd.next] = "free"]
    /\ hd' = IF hd.next + 1 < workers
             THEN [hd EXCEPT !.pc = "lock", !.next = @ + 1]
             ELSE [hd EXCEPT !.pc = "wait", !.next = 0]
    /\ UNCHANGED <<data, dataCap, imageSize, needNormalization, levels, dangling, workers,
                   objects, last, initOk, il, go, nh>>

\* a variant of the loop of Wait that waits for the first worker only
PoolWaitFirstOnly ==
    /\ hd.pc = "wait"
    /\ ~Crashed
    /\ wk.mutex[hd.next] = "free"
    /\ hd' = IF wk.queue[hd.next] # <<>> THEN [hd EXCEPT !.pc = "blocked"]
             ELSE [hd EXCEPT !.pc = "aggregate"]
    /\ UNCHANGED <<data, dataCap, imageSize, needNormalization, levels, dangling, workers,
                   objects, last, initOk, il, go, wk, nh>>

\* Worker::Wait: lock, while (_tasks.size()) _cv.wait(lk): the queue is tested
\* under the mutex; the caller goes on to the next worker or blocks on _cv
PoolWait ==
    /\ hd.pc = "wait"
    /\ ~Crashed
    /\ wk.mutex[hd.next] = "free"
    /\ hd' = IF wk.queue[hd.next] # <<>> THEN [hd EXCEPT !.pc = "blocked"]
             ELSE IF hd.next + 1 < workers THEN [hd EXCEPT !.next = @ + 1]
             ELSE [hd EXCEPT !.pc = "aggregate"]
    /\ UNCHANGED <<data, dataCap, imageSize, needNormalization, levels, dangling, workers,
                   objects, last, initOk, il, go, wk, nh>>

\* AddObjects(candidates[hid.data->tag], level.dst, rect, hid.data->size, ...)
PoolAggregate ==
    /\ hd.pc = "aggregate"
    /\ ~Crashed
    /\ LET tag == data[levels[hd.level].hids[hd.hid].data].tag
       IN  hd' = [hd EXCEPT !.pc = "hid", !.hid = @ + 1,
                            !.cands[tag] = AddObjects(@, levels[hd.level].dst, levels[hd.level].size,
                                                      hd.rect, StripSize, levels[hd.level].scale,
                                                      IF levels[hd.level].throughColumn THEN 2 ELSE 1,
                                                      tag)]
    /\ UNCHANGED <<data, dataCap, imageSize, needNormalization, levels, dangling, workers,
                   objects, last, initOk, il, go, wk, nh>>

\* objects.clear(); GroupObjects for every tag; return true
PoolReturn ==
    /\ hd.pc = "level"
    /\ ~Crashed
    /\ hd.level > Len(levels)
    /\ objects' = GroupAll(<<>>, hd.cands, Ascending(AllTags), hd.in.g.groupSizeMin,
                           hd.in.g.sizeDifferenceMax)
    /\ last' = [op |-> "Detect", ret |-> TRUE, in |-> hd.in,
                 fx |-> [NoFx EXCEPT !.refreshed = TRUE, !.tasks = Cardinality(wk.popped),
                                     !.cands = hd.cands,
                                     !.rects = [i \in 1..Len(levels) |->
                                                   IF hd.in.motion.motionMask
                                                   THEN FillMotionMask(hd.in.motion.motionRegions,
                                                                       levels[i]).rect
                                                   ELSE levels[i].rect]]]
    /\ hd' = [hd EXCEPT !.pc = "returned"]
    /\ UNCHANGED <<data, dataCap, imageSize, needNormalization, levels, dangling, workers,
                   initOk, il, go, wk, nh>>

\* the caller is inside push_back on the queue of worker i
Pushing(i) == hd.pc = "push" /\ hd.next = i

\* Worker::Run: if (_tasks.size()), read without the mutex.  The thread goes on
\* when it sees a task; while the caller is inside push_back the read races
\* with it and may already see one.
WorkerTest(i) ==
    /\ wk.pc[i] = "test"
    /\ ~Crashed
    /\ wk.queue[i] # <<>> \/ Pushing(i)
    /\ wk' = [wk EXCEPT !.pc[i] = "front"]
    /\ UNCHANGED <<data, dataCap, imageSize, needNormalization, levels, dangling, workers,
                   objects, last, initOk, il, hd, go, nh>>

\* Worker::Run: _tasks.front(), read without the mutex
WorkerFront(i) ==
    /\ wk.pc[i] = "front"
    /\ ~Crashed
    /\ wk.queue[i] # <<>>
    /\ ~Pushing(i)
    /\ wk' = [wk EXCEPT !.pc[i] = "run", !.cur[i] = [task |-> Head(wk.queue[i]), queued |-> TRUE]]
    /\ UNCHANGED <<data, dataCap, imageSize, needNormalization, levels, dangling, workers,
                   objects, last, initOk, il, hd, go, nh>>

\* Worker::Run: _tasks.front() read while the caller is inside push_back: the
\* slot may hold the new pointer already, still hold the pointer to the Task
\* the last pop released, or hold no pointer to a Task at all
WorkerFrontRaced(i) ==
    /\ wk.pc[i] = "front"
    /\ ~Crashed
    /\ Pushing(i)
    /\ \/ wk' = [wk EXCEPT !.pc[i] = "run", !.cur[i] = [task |-> PendingTask, queued |-> TRUE]]
       \/ /\ wk.freed[i] # NoTask
          /\ wk' = [wk EXCEPT !.pc[i] = "run", !.cur[i] = [task |-> wk.freed[i], queued |-> FALSE]]
       \/ wk' = [wk EXCEPT !.pc[i] = "crashed"]
    /\ UNCHANGED <<data, dataCap, imageSize, needNormalization, levels, dangling, workers,
                   objects, last, initOk, il, hd, go, nh>>

\* Task::Run: h->detect(h->handle, m.data, m.stride, r.left, r.top, r.right, r.bottom, d.data, d.stride)
WorkerRun(i) ==
    /\ wk.pc[i] = "run"
    /\ ~Crashed
    /\ LET t == wk.cur[i].task
       IN  /\ levels' = [levels EXCEPT ![t.level].dst =
                            @ \cup DetectCall(levels[t.level], levels[t.level].hids[t.hid], t.mask,
                                              t.off, t.left, t.top, t.right, t.bottom)]
           /\ wk' = [wk EXCEPT !.pc[i] = "pop",
                               !.ran = IF wk.cur[i].queued THEN @ \cup {TaskId(t)} ELSE @]
    /\ UNCHANGED <<data, dataCap, imageSize, needNormalization, dangling, workers, objects,
                   last, initOk, il, hd, go, nh>>

\* Worker::Run: lock; _tasks.pop(); _cv.notify_one(); unlock; yield
WorkerPop(i) ==
    /\ wk.pc[i] = "pop"
    /\ ~Crashed
    /\ wk.mutex[i] = "free"
    /\ wk.queue[i] # <<>>
    /\ wk' = [wk EXCEPT !.pc[i] = "test", !.queue[i] = Tail(@),
                        !.cur[i] = [task |-> NoTask, queued |-> FALSE],
                        !.freed[i] = Head(wk.queue[i]),
                        !.popped = @ \cup {TaskId(Head(wk.queue[i]))}]
    /\ hd' = IF hd.pc = "blocked" /\ hd.next = i THEN [hd EXCEPT !.pc = "wait"] ELSE hd
    /\ UNCHANGED <<data, dataCap, imageSize, needNormalization, levels, dangling, workers,
                   objects, last, initOk, il, go, nh>>

NextPool ==
    \/ PoolLevel
    \/ PoolNextLevel
    \/ PoolHidBegin
    \/ PoolAddLock
    \/ PoolAddPush
    \/ PoolWait
    \/ PoolAggregate
    \/ PoolReturn
    \/ \E i \in 0..MaxWorkers - 1 : i < workers /\ WorkerTest(i)
    \/ \E i \in 0..MaxWorkers - 1 : i < workers /\ WorkerFront(i)
    \/ \E i \in 0..MaxWorkers - 1 : i < workers /\ WorkerFrontRaced(i)
    \/ \E i \in 0..MaxWorkers - 1 : i < workers /\ WorkerRun(i)
    \/ \E i \in 0..MaxWorkers - 1 : i < workers /\ WorkerPop(i)

SpecPool == StartPool /\ [][NextPool]_vars

\* every thread that can take a step is scheduled again: the thread that
\* called Detect is never preempted for ever, and the loop of a worker's
\* thread (while (_run) { ... std::this_thread::yield(); }) yields but does not stop
SpecPoolFair ==
    /\ SpecPool
    /\ WF_vars(PoolLevel \/ PoolNextLevel \/ PoolHidBegin \/ PoolAddLock \/ PoolAddPush
                   \/ PoolWait \/ PoolAggregate \/ PoolReturn)
    /\ \A i \in 0..MaxWorkers - 1 :
          WF_vars(i < workers /\ (WorkerTest(i) \/ WorkerFront(i) \/ WorkerFrontRaced(i)
                                       \/ WorkerRun(i) \/ WorkerPop(i)))

-----------------------------------------------------------------------------
(* Properties of the pool (SpecPool). *)

\* the tasks that are in a queue or that a worker is running
ActiveTasks ==
    {wk.queue[i][k] : i \in {j \in DOMAIN wk.queue : wk.queue[j] # <<>>}, k \in {1}}
    \cup {wk.cur[i].task : i \in {j \in DOMAIN wk.pc : wk.pc[j] = "run"}}

TaskRows(t) == t.top .. t.bottom - 1

\* C17: a worker pops a task only after it has run it, and when Hid::Detect
\* has returned and AddObjects reads the bitmap every strip task dispatched for
\* the evaluator has been run.
StripsRunBeforeRead ==
    hd.pc \in {"level", "hid", "lock", "push", "wait", "blocked", "aggregate", "returned"} =>
        /\ wk.popped \subseteq wk.ran
        /\ hd.pc = "aggregate" =>
              \A i \in 0..workers - 1 : <<hd.level, hd.hid, i>> \in wk.ran

\* C18: no thread reads a worker's queue while another is inside push_back on
\* it: whenever the caller is about to push into the queue of a worker under
\* its mutex, the worker thread is not at a read of that queue.
QueueReadUnderMutex ==
    hd.pc \in {"level", "hid", "lock", "push", "wait", "blocked", "aggregate", "returned"} =>
        \A i \in 0..workers - 1 : ~(Pushing(i) /\ wk.pc[i] \in {"test", "front"})

\* C19: two tasks that are queued or running at the same time on different
\* workers and write the bitmap of the same level have no row in common.
StripsDisjoint ==
    hd.pc \in {"level", "hid", "lock", "push", "wait", "blocked", "aggregate", "returned"} =>
        \A x \in ActiveTasks, y \in ActiveTasks :
            (x.worker # y.worker /\ x.level = y.level) => TaskRows(x) \cap TaskRows(y) = {}

\* C20: the levels are in ascending order of scale, every task queued or
\* running belongs to the evaluator Detect is at, and no task is queued or
\* running when Detect moves to the next evaluator or level or reads the bitmap.
OneEvaluatorAtATime ==
    hd.pc \in {"level", "hid", "lock", "push", "wait", "blocked", "aggregate", "returned"} =>
        /\ \A i \in 1..Len(levels) - 1 : RatLt(levels[i].scale, levels[i + 1].scale)
        /\ \A t \in ActiveTasks : t.level = hd.level /\ t.hid = hd.hid
        /\ hd.pc \in {"level", "hid", "aggregate", "returned"} => ActiveTasks = {}

\* C30: the bitmap of a level is cleared before every evaluator's detection,
\* so when AddObjects reads it for an evaluator every nonzero cell of the
\* sub-rectangle is a hit of that evaluator: no hit written for another
\* evaluator of the level, in this call or an earlier one, becomes a candidate.
BitmapOfOneEvaluator ==
    hd.pc = "aggregate" =>
        \A p \in levels[hd.level].dst :
            (p[1] \in hd.r.top .. hd.r.bottom - 1 /\ p[2] \in hd.r.left .. hd.r.right - 1)
                => NativeHit(levels[hd.level], levels[hd.level].hids[hd.hid], p[1], p[2])

\* the evaluator Detect is at has given worker i its task: it is in the queue
\* or has been popped
Dispatched(i) ==
    \/ <<hd.level, hd.hid, i>> \in wk.popped
    \/ wk.queue[i] # <<>> /\ TaskId(wk.queue[i][1]) = <<hd.level, hd.hid, i>>

\* C36: a worker's queue never holds more than one task; while Hid::Detect
\* adds the tasks of an evaluator the workers before the one it is at have been
\* given theirs and the queues of the others are empty, when it waits every
\* worker has been given exactly one, and when it returns, and Detect goes on
\* to AddObjects and the next evaluator or level, every queue is empty.
QueueHoldsOneTask ==
    hd.pc \in {"level", "hid", "lock", "push", "wait", "blocked", "aggregate", "returned"} =>
        /\ \A i \in 0..workers - 1 : Len(wk.queue[i]) <= 1
        /\ hd.pc \in {"lock", "push"} =>
              \A i \in 0..workers - 1 :
                  IF i < hd.next THEN Dispatched(i) ELSE wk.queue[i] = <<>>
        /\ hd.pc \in {"wait", "blocked", "aggregate"} =>
              \A i \in 0..workers - 1 : Dispatched(i)
        /\ hd.pc \in {"level", "hid", "aggregate", "returned"} =>
              \A i \in 0..workers - 1 : wk.queue[i] = <<>>

\* every worker's queue holds its task of the evaluator, one of them for an
\* empty strip
EmptyStripQueued ==
    /\ hd.pc \in {"wait", "blocked"}
    /\ \A i \in 0..workers - 1 : wk.queue[i] # <<>>
    /\ \E i \in 0..workers - 1 : wk.queue[i][1].top >= wk.queue[i][1].bottom
    /\ \E i \in 0..workers - 1 : wk.queue[i][1].top < wk.queue[i][1].bottom

-----------------------------------------------------------------------------
(* Properties of the pool under fair scheduling (SpecPoolFair). *)

-----------------------------------------------------------------------------
(* Properties of the clusterer (SpecGroup), stated on the candidates of the *)
(* call and the objects it added to the vector.                             *)

\* the objects the call has added to the vector
Added == SubSeq(objects, Len(go.before) + 1, Len(objects))

\* the clusters of the call's candidates, one representative per label
Clusters ==
    LET p == Partition(go.src, go.sdm)
    IN  Averaged(Accumulate([buffer |-> EmptyBuffer(p.nclasses), i |-> 1], go.src, p.labels))

\* r1 lies inside r2 enlarged by round(sdm * width of r2) to the left and the
\* right and by round(sdm * height of r2) above and below
InsideEnlarged(r1, r2, sdm) ==
    LET dx == RoundDiv(sdm[1] * (r2.right - r2.left), sdm[2])
        dy == RoundDiv(sdm[1] * (r2.bottom - r2.top), sdm[2])
    IN  /\ r2.left - dx <= r1.left /\ r1.right <= r2.right + dx
        /\ r2.top - dy <= r1.top /\ r1.bottom <= r2.bottom + dy

\* cluster i of b has weight >= groupSizeMin and no other cluster of weight >=
\* groupSizeMin that is heavier than max(3, weight i), or any when weight i < 3,
\* holds it inside its enlarged rectangle
Unsuppressed(b, i) ==
    /\ b[i].weight >= go.groupSizeMin
    /\ \A j \in 1..Len(b) :
          (j # i /\ b[j].weight >= go.groupSizeMin
                 /\ (b[j].weight > Max(3, b[i].weight) \/ b[i].weight < 3))
              => ~InsideEnlarged(b[i].rect, b[j].rect, go.sdm)

UnsuppressedOf(b) ==
    LET Test(i) == Unsuppressed(b, i)
        idx == SelectSeq([i \in 1..Len(b) |-> i], Test)
    IN  [k \in 1..Len(idx) |-> b[idx[k]]]

IsAdded(o) == \E k \in 1..Len(Added) : Added[k] = o

RECURSIVE SumOver(_, _)
SumOver(M, f) ==
    IF M = {} THEN 0
    ELSE LET k == CHOOSE x \in M : TRUE IN f[k] + SumOver(M \ {k}, f)

Members(c) == {k \in 1..Len(go.src) : go.labels[k] = c - 1}

\* the mean of the members' rectangles, each coordinate rounded to the nearest
\* integer (halves away from zero)
MeanRect(M) ==
    Rect(RoundDiv(SumOver(M, [k \in 1..Len(go.src) |-> go.src[k].rect.left]), Cardinality(M)),
         RoundDiv(SumOver(M, [k \in 1..Len(go.src) |-> go.src[k].rect.top]), Cardinality(M)),
         RoundDiv(SumOver(M, [k \in 1..Len(go.src) |-> go.src[k].rect.right]), Cardinality(M)),
         RoundDiv(SumOver(M, [k \in 1..Len(go.src) |-> go.src[k].rect.bottom]), Cardinality(M)))

MergedPair == <<Candidate(Rect(10, 10, 50, 50)), Candidate(Rect(12, 12, 52, 52))>>

\* C13: every cluster has one representative, whose weight is the number of
\* its members and whose rectangle is the mean of theirs coordinate by
\* coordinate (rounded to the nearest integer); the weights sum to the number of
\* candidates; (10,10,50,50) and (12,12,52,52) with sizeDifferenceMax 0.2 give
\* one cluster of weight 2 at (11,11,51,51), emitted for groupSizeMin 2 and
\* not for groupSizeMin 3.
ClustersAveraged ==
    /\ (go.pc \in {"averaged", "returned"} /\ ~go.skipped) =>
          /\ Len(go.buffer) = go.nclasses
          /\ \A c \in 1..go.nclasses :
                /\ go.buffer[c].weight = Cardinality(Members(c))
                /\ go.buffer[c].rect = MeanRect(Members(c))
                /\ go.buffer[c].tag = GroupTag
          /\ SumOver(1..go.nclasses, [c \in 1..go.nclasses |-> go.buffer[c].weight]) = Len(go.src)
          /\ (go.src = MergedPair /\ go.sdm = <<1, 5>>) =>
                go.buffer = <<Object(Rect(11, 11, 51, 51), 2, GroupTag)>>
    /\ (go.pc = "returned" /\ go.src = MergedPair /\ go.sdm = <<1, 5>>) =>
          /\ go.groupSizeMin = 2 => Added = <<Object(Rect(11, 11, 51, 51), 2, GroupTag)>>
          /\ go.groupSizeMin = 3 => Added = <<>>

\* the two candidates merged and emitted for groupSizeMin 2
MergedPairEmitted ==
    /\ go.pc = "returned"
    /\ go.round = 1
    /\ go.src = MergedPair
    /\ go.sdm = <<1, 5>>
    /\ go.groupSizeMin = 2
    /\ Added = <<Object(Rect(11, 11, 51, 51), 2, GroupTag)>>

\* C14 (amended): GroupObjects called with the same parameters on the one
\* representative of weight groupSizeMin it produced gives one object with the
\* same rectangle and the same weight when groupSizeMin is 1; when groupSizeMin
\* is 2 or more the one candidate is fewer than groupSizeMin and it gives none.
RegroupedOnlyForOne ==
    (go.pc = "returned" /\ go.round = 2 /\ go.first.weight = go.groupSizeMin) =>
        IF go.groupSizeMin = 1
        THEN /\ Len(objects) = 1
             /\ objects[1].rect = go.first.rect
             /\ objects[1].weight = go.first.weight
        ELSE objects = <<>>

\* C14 as stated: the second call gives exactly one object with the rectangle
\* and the weight of the representative.
RegroupReproduces ==
    (go.pc = "returned" /\ go.round = 2 /\ go.first.weight = go.groupSizeMin) =>
        /\ Len(objects) = 1
        /\ objects[1].rect = go.first.rect
        /\ objects[1].weight = go.first.weight

\* a second call on a representative of weight 1 that has returned it
RegroupedSingle ==
    /\ go.pc = "returned"
    /\ go.round = 2
    /\ ~go.skipped
    /\ go.groupSizeMin = 1
    /\ go.first.weight = 1
    /\ objects = <<go.first>>

\* all four edges of a and b differ by at most
\* sizeDifferenceMax * 0.5 * (min of the widths + min of the heights)
EdgesWithin(a, b, sdm) ==
    LET m == Min(a.right - a.left, b.right - b.left) + Min(a.bottom - a.top, b.bottom - b.top)
    IN  \A d \in {Abs(a.left - b.left), Abs(a.top - b.top), Abs(a.right - b.right),
                  Abs(a.bottom - b.bottom)} : 2 * sdm[2] * d <= sdm[1] * m

\* C15: Similar(a, b) = Similar(b, a) for every two candidates, and Similar(a, b)
\* holds exactly when all four edge differences are at most
\* sizeDifferenceMax * 0.5 * (min width + min height).
SimilarSymmetric ==
    go.pc # "idle" =>
        \A i \in 1..Len(go.src), j \in 1..Len(go.src) :
            /\ Similar(go.src[i], go.src[j], go.sdm) = Similar(go.src[j], go.src[i], go.sdm)
            /\ Similar(go.src[i], go.src[j], go.sdm)
                   <=> EdgesWithin(go.src[i].rect, go.src[j].rect, go.sdm)

\* candidates of different sizes that are not similar, beside two different
\* candidates that are
SimilarAndDissimilar ==
    /\ go.pc = "labelled"
    /\ \E i \in 1..Len(go.src), j \in 1..Len(go.src) :
          /\ Width(go.src[i].rect) # Width(go.src[j].rect)
          /\ ~Similar(go.src[i], go.src[j], go.sdm)
          /\ 2 * go.sdm[2] * Abs(go.src[i].rect.right - go.src[j].rect.right)
                 <= go.sdm[1] * (Width(go.src[i].rect) + Height(go.src[i].rect))
    /\ \E i \in 1..Len(go.src), j \in 1..Len(go.src) :
          /\ go.src[i] # go.src[j]
          /\ Similar(go.src[i], go.src[j], go.sdm)

\* the candidates within the edge tolerance of some candidate of S, and S
Neighbours(S) ==
    S \cup {j \in 1..Len(go.src) :
                \E i \in S : EdgesWithin(go.src[i].rect, go.src[j].rect, go.sdm)}

\* the candidates a chain of pairwise-similar candidates links to those of S
RECURSIVE Chained(_)
Chained(S) == IF Neighbours(S) = S THEN S ELSE Chained(Neighbours(S))

\* C23: Partition gives two candidates the same label exactly when a chain of
\* pairwise-similar candidates links them, in whatever order the candidates
\* come; the labels are the integers 0..nclasses-1, each one used, and nclasses
\* is the number of connected components of the similarity graph.
PartitionLabelsComponents ==
    go.pc \in {"labelled", "summed", "averaged"} =>
        /\ Len(go.labels) = Len(go.src)
        /\ \A i \in 1..Len(go.src), j \in 1..Len(go.src) :
              (go.labels[i] = go.labels[j]) <=> (j \in Chained({i}))
        /\ {go.labels[i] : i \in 1..Len(go.src)} = 0..go.nclasses - 1
        /\ go.nclasses = Cardinality({Chained({i}) : i \in 1..Len(go.src)})

\* two candidates that are not similar and are labelled alike because a
\* candidate that comes after both in the list is similar to each
ChainLabelledAlike ==
    /\ go.pc = "labelled"
    /\ \E i \in 1..Len(go.src), j \in 1..Len(go.src), k \in 1..Len(go.src) :
          /\ i < j /\ j < k
          /\ go.labels[i] = go.labels[j]
          /\ ~Similar(go.src[i], go.src[j], go.sdm)
          /\ Similar(go.src[i], go.src[k], go.sdm)
          /\ Similar(go.src[j], go.src[k], go.sdm)

\* C24: a GroupObjects call with groupSizeMin 0, or with fewer candidates than
\* groupSizeMin, adds nothing: the vector holds what it held before the call,
\* the objects of the tags grouped earlier included.
NothingAddedWhenSkipped ==
    (go.pc = "returned" /\ (go.groupSizeMin = 0 \/ Len(go.src) < go.groupSizeMin)) =>
        objects = go.before

\* a call with one or two candidates, fewer than groupSizeMin, has returned and
\* the object of another tag is still the only one in the vector
TooFewLeftAlone ==
    /\ go.pc = "returned"
    /\ go.src # <<>>
    /\ Len(go.src) < go.groupSizeMin
    /\ go.before # <<>>
    /\ objects = go.before
    /\ objects[1].tag # go.src[1].tag

\* C34: a cluster of weight >= groupSizeMin that the suppression pass dropped
\* lies inside the enlarged rectangle of a cluster that was emitted; no two
\* clusters suppress each other so that neither is emitted.
SuppressedInsideEmitted ==
    (go.pc = "returned" /\ ~go.skipped) =>
        \A i \in 1..Len(Clusters) :
            (Clusters[i].weight >= go.groupSizeMin /\ ~IsAdded(Clusters[i]))
                => \E j \in 1..Len(Clusters) :
                      /\ j # i
                      /\ IsAdded(Clusters[j])
                      /\ InsideEnlarged(Clusters[i].rect, Clusters[j].rect, go.sdm)

-----------------------------------------------------------------------------
(* Properties of the pool over the calls (Spec). *)

\* the evaluators of the levels whose rectangle is not empty
RECURSIVE EvaluatorsFrom(_)
EvaluatorsFrom(i) ==
    IF i > Len(levels) THEN 0
    ELSE (IF Empty(levels[i].rect) THEN 0 ELSE Len(levels[i].hids)) + EvaluatorsFrom(i + 1)

\* C25: no call takes a worker out of the pool: the pool never shrinks, an Init
\* that gets past the no-model test adds the workers its thread count asks for
\* to those of the Init calls before it, Detect leaves the pool as it is, and a
\* successful Detect without motion mask gives every evaluator one strip for
\* every worker of the pool.
WorkersPersist ==
    [][/\ workers' >= workers
       /\ (last'.op = "Init" /\ data # <<>>) => workers' = workers + PoolSize(last'.in.threadNumber)
       /\ last'.op \in {"Load", "Detect"} => workers' = workers
       /\ (last'.op = "Detect" /\ last'.ret /\ ~last'.in.motion.motionMask)
              => last'.fx.tasks = workers * EvaluatorsFrom(1)]_vars

\* a Detect that split the strips of its evaluators over the workers of two
\* Init calls
StripsOverTwoPools ==
    /\ last.op = "Detect"
    /\ last.ret
    /\ workers = 2 * HardwareConcurrency
    /\ last.fx.tasks >= workers
    /\ last.fx.tasks % workers = 0

-----------------------------------------------------------------------------
(* Properties of the candidates over the calls (Spec). *)

\* the active rectangle of level i in the most recent Detect call
ActiveRect(i) ==
    IF last.in.motion.motionMask
    THEN FillMotionMask(last.in.motion.motionRegions, levels[i]).rect
    ELSE levels[i].rect

\* the positions of level i the aggregator is to visit for a model: the active
\* rectangle shifted by minus half the window, cut to the level's size minus
\* the window, every second row and column when the level is through-column
VisitedCells(i, d) ==
    LET half == <<RoundDiv(-d.size[1], 2), RoundDiv(-d.size[2], 2)>>
        a == ActiveRect(i)
        top == Max(a.top + half[2], 0)
        left == Max(a.left + half[1], 0)
        bottom == Min(a.bottom + half[2], levels[i].size[2] - d.size[2])
        right == Min(a.right + half[1], levels[i].size[1] - d.size[1])
        stride == IF levels[i].scale[1] <= 2 * levels[i].scale[2] THEN 2 ELSE 1
    IN  {p \in (top .. bottom - 1) \X (left .. right - 1) :
            (p[1] - top) % stride = 0 /\ (p[2] - left) % stride = 0}

\* the candidate of a model for position p of level i
CandidateAt(i, d, p) ==
    Object(RectMul(Rect(p[2], p[1], p[2] + d.size[1], p[1] + d.size[2]), levels[i].scale),
           1, d.tag)

\* the levels Detect runs the evaluators of
Scanned == {i \in 1..Len(levels) : ~Empty(ActiveRect(i)) /\ levels[i].hids # <<>>}

\* C29: after a successful Detect every candidate collected for a tag has
\* weight 1 and is the candidate of an evaluator's model with that tag for a
\* position the aggregator is to visit on the evaluator's level; and when no
\* level has more than one evaluator there are as many candidates as there are
\* nonzero visited positions in the bitmaps of the levels.
CandidatesFromVisitedCells ==
    (last.op = "Detect" /\ last.ret) =>
        /\ \A t \in AllTags : \A k \in 1..Len(last.fx.cands[t]) :
              \E i \in Scanned : \E j \in 1..Len(levels[i].hids) :
                  LET d == data[levels[i].hids[j].data]
                  IN  /\ d.tag = t
                      /\ \E p \in VisitedCells(i, d) : last.fx.cands[t][k] = CandidateAt(i, d, p)
        /\ (\A i \in 1..Len(levels) : Len(levels[i].hids) <= 1) =>
              SumOver(AllTags, [t \in AllTags |-> Len(last.fx.cands[t])])
                  = SumOver(Scanned, [i \in Scanned |->
                        Cardinality(VisitedCells(i, data[levels[i].hids[1].data])
                                    \cap levels[i].dst)])

-----------------------------------------------------------------------------
(* The native handles over the life of a detector.  Load obtains a model    *)
(* handle (SimdDetectionLoadA), every bind of InitLevels an evaluator       *)
(* handle (SimdDetectionInit); ~Level and ~Detection release them           *)
(* (SimdDetectionFree).  _levels is a std::vector<Level>, and Level         *)
(* declares a destructor but no copy or move operation: when the vector     *)
(* outgrows its capacity its elements are copied member by member into the  *)
(* new storage and the originals are destroyed.                             *)
(* nh = [pc, models, levels, cap, next, frees, stale, todo, failAt, binds,  *)
(*       inits]: models the handles of _data, levels the handles of the     *)
(* hids of every level, cap the capacity of _levels, next the handle the    *)
(* library gives next, frees the SimdDetectionFree calls per handle, stale  *)
(* whether a released handle was passed to the library, todo the scales at  *)
(* which the iteration still pushes a level, failAt the bind that fails,    *)
(* binds the binds of this Init, inits the Init calls so far.               *)

\* _levels.reserve(100)
LevelsReserve == 100

\* the Init calls of one detector
MaxInits == 2

\* the handles the hids of the levels hold
HeldByLevels(lvls) == UNION {{lvls[k][j] : j \in DOMAIN lvls[k]} : k \in DOMAIN lvls}

\* ::SimdDetectionFree(handle) for every handle of H
SimdDetectionFree(frees, H) == [h \in DOMAIN frees |-> IF h \in H THEN frees[h] + 1 ELSE frees[h]]

\* _levels.push_back(Level()): beyond the capacity the levels are copied to new
\* storage of twice the size and ~Level runs on each original
PushLevel(h) ==
    IF Len(h.levels) < h.cap
    THEN [h EXCEPT !.levels = Append(@, <<>>)]
    ELSE [h EXCEPT !.levels = Append(@, <<>>), !.cap = 2 * h.cap,
                   !.frees = SimdDetectionFree(@, HeldByLevels(h.levels))]

StartHandles ==
    /\ data = <<>>
    /\ dataCap = 0
    /\ imageSize = <<0, 0>>
    /\ needNormalization = FALSE
    /\ levels = <<>>
    /\ dangling = FALSE
    /\ workers = 0
    /\ objects = <<>>
    /\ last = [op |-> "new", ret |-> TRUE, in |-> <<>>, fx |-> NoFx]
    /\ initOk = "none"
    /\ il = IdleLevels
    /\ hd = IdleHid
    /\ go = IdleGroup
    /\ wk = IdlePool
    /\ nh = [pc |-> "idle", models |-> <<>>, levels |-> <<>>, cap |-> 0, next |-> 1,
             frees |-> <<>>, stale |-> FALSE, todo |-> 0, failAt |-> 0, binds |-> 0,
             inits |-> 0]

\* Load of a cascade the library parses: handle = SimdDetectionLoadA(path); _data.push_back(data)
HandlesLoad ==
    /\ nh.pc = "idle"
    /\ Len(nh.models) < MaxModels
    /\ nh' = [nh EXCEPT !.models = Append(@, nh.next), !.next = @ + 1, !.frees = Append(@, 0)]
    /\ last' = [op |-> "Load", ret |-> TRUE, in |-> <<>>, fx |-> NoFx]
    /\ UNCHANGED <<data, dataCap, imageSize, needNormalization, levels, dangling, workers,
                   objects, initOk, il, hd, go, wk>>

\* Init with a model loaded, up to the loop of InitLevels:
\* _levels.clear() (~Level on every level); _levels.reserve(100)
HandlesInit(n, failAt) ==
    /\ nh.pc = "idle"
    /\ nh.models # <<>>
    /\ nh.inits < MaxInits
    /\ nh' = [nh EXCEPT !.pc = "init", !.levels = <<>>, !.cap = Max(@, LevelsReserve),
                        !.frees = SimdDetectionFree(@, HeldByLevels(nh.levels)),
                        !.todo = n, !.failAt = failAt, !.binds = 0, !.inits = @ + 1]
    /\ UNCHANGED <<data, dataCap, imageSize, needNormalization, levels, dangling, workers,
                   objects, last, initOk, il, hd, go, wk>>

\* one iteration of the do-while loop that pushes a level: push_back(Level()),
\* then SimdDetectionInit for every model; a bind that gives NULL returns false
HandlesIterate ==
    /\ nh.pc = "init"
    /\ nh.todo > 0
    /\ LET p == PushLevel(nh)
           \* the binds that return a handle: all, or those before bind number failAt
           k == IF nh.failAt \in nh.binds + 1 .. nh.binds + Len(nh.models)
                THEN nh.failAt - nh.binds - 1
                ELSE Len(nh.models)
           failed == k < Len(nh.models)
       IN  /\ nh' = [p EXCEPT !.levels[Len(p.levels)] = [j \in 1..k |-> nh.next + j - 1],
                              !.next = @ + k,
                              !.frees = @ \o [j \in 1..k |-> 0],
                              !.binds = @ + k + (IF failed THEN 1 ELSE 0),
                              !.todo = IF failed THEN 0 ELSE @ - 1,
                              !.pc = IF failed THEN "idle" ELSE "init"]
           /\ last' = IF failed THEN [op |-> "Init", ret |-> FALSE, in |-> <<>>, fx |-> NoFx]
                      ELSE last
    /\ UNCHANGED <<data, dataCap, imageSize, needNormalization, levels, dangling, workers,
                   objects, initOk, il, hd, go, wk>>

\* if (exit) break; return !_levels.empty()
HandlesInitReturn ==
    /\ nh.pc = "init"
    /\ nh.todo = 0
    /\ nh' = [nh EXCEPT !.pc = "idle"]
    /\ last' = [op |-> "Init", ret |-> nh.levels # <<>>, in |-> <<>>, fx |-> NoFx]
    /\ UNCHANGED <<data, dataCap, imageSize, needNormalization, levels, dangling, workers,
                   objects, initOk, il, hd, go, wk>>

\* Detect on a pyramid: every evaluator's handle is passed to its detection
\* routine (SimdDetectionPrepare(handle) and detect(handle, ...) at lines 280 and 284,
\* h->detect(h->handle, ...) at line 375)
HandlesDetect ==
    /\ nh.pc = "idle"
    /\ nh.levels # <<>>
    /\ nh' = [nh EXCEPT !.stale = @ \/ \E h \in HeldByLevels(nh.levels) : nh.frees[h] > 0]
    /\ last' = [op |-> "Detect", ret |-> TRUE, in |-> <<>>, fx |-> NoFx]
    /\ UNCHANGED <<data, dataCap, imageSize, needNormalization, levels, dangling, workers,
                   objects, initOk, il, hd, go, wk>>

\* ~Detection: SimdDetectionFree on every model handle, then the members:
\* ~Level on every level of _levels
HandlesDestroy ==
    /\ nh.pc = "idle"
    /\ nh' = [nh EXCEPT !.pc = "destroyed", !.models = <<>>, !.levels = <<>>,
                        !.frees = SimdDetectionFree(@, {nh.models[i] : i \in DOMAIN nh.models}
                                                       \cup HeldByLevels(nh.levels))]
    /\ last' = [op |-> "~Detection", ret |-> TRUE, in |-> <<>>, fx |-> NoFx]
    /\ UNCHANGED <<data, dataCap, imageSize, needNormalization, levels, dangling, workers,
                   objects, initOk, il, hd, go, wk>>

NextHandles ==
    \/ HandlesLoad
    \* n, the number of scales at which InitLevels pushes a level, is as the image
    \* size, the scale factor and the size limits of the call make it
    \/ \E n \in {1, 2, LevelsReserve, LevelsReserve + 1}, failAt \in 0..MaxFail :
          HandlesInit(n, failAt)
    \/ HandlesIterate
    \/ HandlesInitReturn
    \/ HandlesDetect
    \/ HandlesDestroy

SpecHandles == StartHandles /\ [][NextHandles]_vars

-----------------------------------------------------------------------------
(* Properties of the native handles (SpecHandles). *)

\* the handles the detector holds: those of _data and those of the levels' hids
Held == {nh.models[i] : i \in DOMAIN nh.models} \cup HeldByLevels(nh.levels)

\* C32: every handle Load or Init obtained is released exactly once: a handle
\* the detector holds has not been released, a handle it holds no longer (its
\* level was discarded by a later Init, or the detector was destroyed) has
\* been released once, and no released handle is passed to the library.
HandlesReleasedOnce ==
    /\ ~nh.stale
    /\ \A h \in DOMAIN nh.frees : nh.frees[h] = IF h \in Held THEN 0 ELSE 1

-----------------------------------------------------------------------------
(* Properties of the evaluators' references to their models (Spec). *)

\* C33: a Load leaves the levels and the models loaded before as they are and
\* invalidates no evaluator's reference to its model; and every candidate of a
\* successful Detect carries the tag and the scaled window of a model some
\* evaluator of a level was bound to.
ModelReferencesStayValid ==
    [][/\ last'.op = "Load" =>
              /\ levels' = levels
              /\ \A i \in 1..Len(data) : data'[i] = data[i]
              /\ dangling' = dangling
       /\ (last'.op = "Detect" /\ last'.ret) =>
              \A t \in AllTags : \A k \in 1..Len(last'.fx.cands[t]) :
                  \E i \in 1..Len(levels) : \E j \in 1..Len(levels[i].hids) :
                      LET d == data[levels[i].hids[j].data]
                      IN  /\ d.tag = t
                          /\ \E p \in (0 .. levels[i].size[2] - 1) \X (0 .. levels[i].size[1] - 1) :
                                last'.fx.cands[t][k].rect
                                    = RectMul(Rect(p[2], p[1], p[2] + d.size[1], p[1] + d.size[2]),
                                              levels[i].scale)]_vars

-----------------------------------------------------------------------------
(* Properties of the motion restriction over the calls (Spec). *)

\* the smallest rectangle that holds every region of the call, scaled to a level
ScaledBox(rects, scale) ==
    LET S == {r \in {RectDiv(rects[k], scale) : k \in DOMAIN rects} : ~Empty(r)}
    IN  IF S = {} THEN EmptyRect
        ELSE Rect((CHOOSE r \in S : \A q \in S : r.left <= q.left).left,
                  (CHOOSE r \in S : \A q \in S : r.top <= q.top).top,
                  (CHOOSE r \in S : \A q \in S : r.right >= q.right).right,
                  (CHOOSE r \in S : \A q \in S : r.bottom >= q.bottom).bottom)

\* C35: Detect with motionMask on a detector that has levels, for an image of
\* the size Init was given, returns true; the rectangle it has for a level is
\* the union of the motion regions scaled to the level, cut to the level's ROI
\* rectangle (empty when that is empty); without motion regions every level's
\* rectangle is empty, no bitmap is written, no task is given to a worker, no
\* candidate is collected and the objects vector is left empty.
MotionRestrictsLevels ==
    [][(/\ last'.op = "Detect"
        /\ last'.in.motion.motionMask
        /\ levels # <<>>
        /\ last'.in.src.size = imageSize) =>
            /\ last'.ret
            /\ Len(last'.fx.rects) = Len(levels)
            /\ \A i \in 1..Len(levels) :
                  LET box == Intersection(ScaledBox(last'.in.motion.motionRegions, levels[i].scale),
                                          levels[i].rect)
                  IN  IF Empty(box) THEN Empty(last'.fx.rects[i]) ELSE last'.fx.rects[i] = box
            /\ last'.in.motion.motionRegions = <<>> =>
                  /\ \A i \in 1..Len(levels) :
                        Empty(last'.fx.rects[i]) /\ levels'[i].dst = levels[i].dst
                  /\ last'.fx.tasks = 0
                  /\ \A t \in AllTags : last'.fx.cands[t] = <<>>
                  /\ objects' = <<>>]_vars

\* a Detect with two motion regions on a level whose rectangle is neither
\* region alone and is cut by the ROI rectangle, and which found candidates
MotionUnionCutByRoi ==
    /\ last.op = "Detect"
    /\ last.ret
    /\ last.in.motion.motionMask
    /\ Len(last.in.motion.motionRegions) = 2
    /\ \E t \in AllTags : last.fx.cands[t] # <<>>
    /\ \E i \in 1..Len(levels) :
          /\ ~Empty(last.fx.rects[i])
          /\ \A k \in 1..2 : last.fx.rects[i] # RectDiv(last.in.motion.motionRegions[k], levels[i].scale)
          /\ last.fx.rects[i] # ScaledBox(last.in.motion.motionRegions, levels[i].scale)

====
